---------------------------- MODULE Spec2Model ----------------------------
(***************************************************************************)
(* A model of the gfp pak reader (dialect 7 "avatar" paks and dialect 10   *)
(* game paks): the lazily loaded archive object of src/pak_reader, the     *)
(* byte cursor and the UTF-16LE to UTF-8 converter of src/utils.rs.        *)
(*                                                                         *)
(* Bytes are numbers 0..255, buffers and strings are sequences of bytes.   *)
(* Offsets are 0-based as in the source; a sequence s holds the byte at    *)
(* offset i in s[i + 1].                                                   *)
(***************************************************************************)
EXTENDS Integers, Sequences, FiniteSets, TLC

Byte == 0 .. 255

(***************************************************************************)
(* Bounds of the model.                                                    *)
(***************************************************************************)
\* entries per generated archive, and the largest entry id a caller passes
MaxEntries == 2
\* longest buffer handed to the UTF-16LE converter
MaxBuf == 5
\* most paths a glob pattern matches
MaxPaks == 2
\* most passes of the loops that one call is followed through
MaxSteps == 40
\* longest file pattern handed to prepare_file_pattern
MaxPattern == 4

(***************************************************************************)
(* Program constants.                                                      *)
(***************************************************************************)
PAK_INFO_SIZE == 45
ENCRYPTED_XOR_KEY == 108
DECRYPT_KEY == 121
CHUNK_SIZE == 65536
MAX_INDEX_SIZE == 52428800
RAW_HEADER_SIZE == 74
MAX_ENTRY_PATH == 8192
OFFSET_XOR_KEY == <<13, 2, 107, 170, 127, 243, 74, 215>>
SIZE_XOR_KEY == <<105, 112, 139, 41, 227, 176, 36, 137>>
HASH_KEY ==
  <<155, 49, 36, 97, 203, 211, 245, 24, 32, 161, 27, 251, 253, 64, 182,
    0, 30, 83, 92, 36>>

\* Numbers of 2^30 and more are not told apart: every comparison the code
\* makes is against a buffer length, a file length or MAX_INDEX_SIZE, all
\* far below it.
HUGE == 1073741824

(***************************************************************************)
(* Bytes and little-endian integers.                                       *)
(***************************************************************************)
RECURSIVE BitXor(_, _, _)
BitXor(a, b, n) ==
  IF n = 0 THEN 0
  ELSE (((a % 2) + (b % 2)) % 2) + 2 * BitXor(a \div 2, b \div 2, n - 1)

KeyBytes ==
  {ENCRYPTED_XOR_KEY, DECRYPT_KEY}
    \cup {OFFSET_XOR_KEY[i] : i \in 1 .. 8}
    \cup {SIZE_XOR_KEY[i] : i \in 1 .. 8}
    \cup {HASH_KEY[i] : i \in 1 .. 20}

XorTable == [k \in KeyBytes |-> [b \in Byte |-> BitXor(b, k, 8)]]

\* a ^ key on one byte
xor_byte(b, key) == XorTable[key][b]

\* utils.rs xor_each_byte
xor_each_byte(data, key) == [i \in 1 .. Len(data) |-> xor_byte(data[i], key)]

\* xor_each_byte on a buffer held with its padding
xor_each_byte_buf(b, key) ==
  [bytes |-> xor_each_byte(b.bytes, key), pad |-> b.pad, fill |-> xor_byte(b.fill, key)]

\* bytewise XOR with a multi-byte key of the same length (u64 ^ KEY)
xor_key(data, key) == [i \in 1 .. Len(data) |-> xor_byte(data[i], key[i])]

Zeros(n) == [i \in 1 .. n |-> 0]

\* the concatenation of a sequence of sequences
RECURSIVE Flat(_)
Flat(ss) == IF ss = <<>> THEN <<>> ELSE Head(ss) \o Flat(Tail(ss))

\* u32::from_le_bytes, saturated at HUGE
u32_from_le_bytes(b) ==
  IF b[4] >= 64 THEN HUGE
  ELSE b[1] + 256 * b[2] + 65536 * b[3] + 16777216 * b[4]

\* i32::from_le_bytes, saturated at -HUGE and HUGE
i32_from_le_bytes(b) ==
  IF b[4] < 128 THEN u32_from_le_bytes(b)
  ELSE IF b[4] < 192 THEN -HUGE
  ELSE -((255 - b[1]) + 256 * (255 - b[2]) + 65536 * (255 - b[3])
          + 16777216 * (255 - b[4]) + 1)

\* u64::from_le_bytes, saturated at HUGE
u64_from_le_bytes(b) ==
  IF \E i \in 5 .. 8 : b[i] # 0 THEN HUGE
  ELSE u32_from_le_bytes(SubSeq(b, 1, 4))

\* (x as i64) of a u64 held as bytes, saturated at -HUGE and HUGE
i64_from_le_bytes(b) ==
  IF b[8] < 128 THEN u64_from_le_bytes(b)
  ELSE IF (\E i \in 5 .. 8 : b[i] # 255) \/ b[4] < 128 THEN -HUGE
  ELSE i32_from_le_bytes(SubSeq(b, 1, 4))

\* the encodings, for the generated files
le_bytes(n, w) ==
  [i \in 1 .. w |->
     IF i > 4 THEN 0
     ELSE (n \div (CASE i = 1 -> 1 [] i = 2 -> 256 [] i = 3 -> 65536
                     [] OTHER -> 16777216)) % 256]

\* two's complement of a negative number of small magnitude, w bytes
le_bytes_neg(n, w) ==
  LET m == (-n) - 1
      p == le_bytes(m, w)
  IN  [i \in 1 .. w |-> 255 - p[i]]

le_int(n, w) == IF n < 0 THEN le_bytes_neg(n, w) ELSE le_bytes(n, w)

(***************************************************************************)
(* Results.                                                                *)
(***************************************************************************)
\* A Result or a panic: the PakError variant (kind), the io::ErrorKind of an
\* Io error (io), the message, and the numbers formatted into it (args).
Ok == [tag |-> "Ok", kind |-> "", io |-> "", msg |-> "", args |-> <<>>]
Err(kind, io, msg, args) ==
  [tag |-> "Err", kind |-> kind, io |-> io, msg |-> msg, args |-> args]
Panic(msg) == [tag |-> "Panic", kind |-> "", io |-> "", msg |-> msg, args |-> <<>>]

\* error.rs: PakError::invalid_data
invalid_data(msg, args) == Err("InvalidData", "", msg, args)
\* error.rs: From<std::io::Error> for PakError
io_error(io, msg) == Err("Io", io, msg, <<>>)

(***************************************************************************)
(* utils.rs: the UTF-16LE to UTF-8 converter, in place.                    *)
(***************************************************************************)
\* buff[j] = v of a Rust slice: the index is bounds-checked
RECURSIVE utf16_loop(_, _, _)
utf16_loop(buff, i, j) ==
  LET len == Len(buff) IN
  IF ~(i < len) THEN [res |-> Ok, n |-> j, buff |-> buff]
  ELSE IF i + 1 >= len
    THEN [res |-> Err("str", "", "Incomplete UTF-16 sequence", <<>>),
          n |-> 0, buff |-> buff]
  ELSE
    LET unicode_char == buff[i + 1] + 256 * buff[i + 2] IN
    IF unicode_char <= 127 THEN
      IF j >= len THEN [res |-> Panic("index out of bounds"), n |-> 0, buff |-> buff]
      ELSE utf16_loop([buff EXCEPT ![j + 1] = unicode_char], i + 2, j + 1)
    ELSE IF unicode_char <= 2047 THEN
      IF j + 1 >= len
        THEN [res |-> Err("str", "", "Output buffer too small", <<>>),
              n |-> 0, buff |-> buff]
      ELSE utf16_loop([buff EXCEPT ![j + 1] = 192 + (unicode_char \div 64),
                                   ![j + 2] = 128 + (unicode_char % 64)],
                      i + 2, j + 2)
    ELSE
      IF j + 2 >= len
        THEN [res |-> Err("str", "", "Output buffer too small", <<>>),
              n |-> 0, buff |-> buff]
      ELSE utf16_loop([buff EXCEPT ![j + 1] = 224 + (unicode_char \div 4096),
                                   ![j + 2] = 128 + ((unicode_char \div 64) % 64),
                                   ![j + 3] = 128 + (unicode_char % 64)],
                      i + 2, j + 3)

utf16le_to_utf8_arr_inplace(buff) == utf16_loop(buff, 0, 0)

\* utils.rs utf16le_to_utf8_inplace: truncate on Ok, panic on Err
utf16le_to_utf8_inplace(utf16le) ==
  LET r == utf16le_to_utf8_arr_inplace(utf16le) IN
  IF r.res.tag = "Ok" THEN [res |-> Ok, data |-> SubSeq(r.buff, 1, r.n)]
  ELSE [res |-> Panic(r.res.msg), data |-> r.buff]


(***************************************************************************)
(* Strings: std::ffi::CString and String, as sequences of bytes.           *)
(***************************************************************************)
Cont(b) == b >= 128 /\ b <= 191

\* core::str::from_utf8 succeeds
RECURSIVE IsUtf8(_)
IsUtf8(s) ==
  IF s = <<>> THEN TRUE
  ELSE
    LET b == s[1]
        n == Len(s)
        w == IF b <= 127 THEN 1
             ELSE IF b >= 194 /\ b <= 223 THEN 2
             ELSE IF b >= 224 /\ b <= 239 THEN 3
             ELSE IF b >= 240 /\ b <= 244 THEN 4
             ELSE 0
    IN  /\ w # 0
        /\ n >= w
        /\ \A k \in 2 .. w : Cont(s[k])
        /\ (b = 224) => s[2] >= 160
        /\ (b = 237) => s[2] <= 159
        /\ (b = 240) => s[2] >= 144
        /\ (b = 244) => s[2] <= 143
        /\ IsUtf8(SubSeq(s, w + 1, n))

\* CString::from_vec_with_nul(data)?.into_string()? : the string without
\* its terminator, or the InvalidData error of error.rs
cstring_into_string(data) ==
  LET n == Len(data) IN
  IF n = 0 \/ data[n] # 0
    THEN [res |-> invalid_data("data provided is not nul terminated", <<>>), str |-> <<>>]
  ELSE IF \E i \in 1 .. n - 1 : data[i] = 0
    THEN [res |-> invalid_data("data provided contains an interior nul byte", <<>>),
          str |-> <<>>]
  ELSE IF ~IsUtf8(SubSeq(data, 1, n - 1))
    THEN [res |-> invalid_data("C string contained non-utf8 bytes", <<>>), str |-> <<>>]
  ELSE [res |-> Ok, str |-> SubSeq(data, 1, n - 1)]

(***************************************************************************)
(* utils.rs file_reader::VecCursor: a buffer and an offset into it.        *)
(***************************************************************************)
\* A Vec<u8> is its leading bytes and a run of `pad` equal bytes `fill`
\* after them: a buffer that a short read left mostly zero is held without
\* writing its zeros out.
Buf(bytes) == [bytes |-> bytes, pad |-> 0, fill |-> 0]
BufLen(b) == Len(b.bytes) + b.pad
BufSlice(b, offset, n) ==
  [i \in 1 .. n |->
     IF offset + i <= Len(b.bytes) THEN b.bytes[offset + i] ELSE b.fill]
BufBytes(b) == BufSlice(b, 0, BufLen(b))

VecCursor_new(data) == [buffer |-> data, offset |-> 0]
VecCursor_new_with_offset(data, offset) == [buffer |-> data, offset |-> offset]

move_by(cur, n) == [cur EXCEPT !.offset = cur.offset + n]

\* &self.buffer[self.offset..(self.offset + N)]: the slice panics when its
\* range leaves the buffer
read_nocheck(cur, N) ==
  IF cur.offset + N > BufLen(cur.buffer)
    THEN [res |-> Panic("range end index out of range for slice"),
          data |-> <<>>, cur |-> cur]
  ELSE [res |-> Ok,
        data |-> BufSlice(cur.buffer, cur.offset, N),
        cur |-> move_by(cur, N)]

read(cur, N) ==
  IF cur.offset + N > BufLen(cur.buffer)
    THEN [res |-> io_error("InvalidData", "Read past end of buffer"),
          data |-> <<>>, cur |-> cur]
  ELSE read_nocheck(cur, N)

read_dyn(cur, length) ==
  IF cur.offset + length > BufLen(cur.buffer)
    THEN [res |-> io_error("InvalidData", "Read past end of buffer"),
          data |-> <<>>, cur |-> cur]
  ELSE read_nocheck(cur, length)

(***************************************************************************)
(* utils.rs read_file_at and zlib_decompress.                              *)
(***************************************************************************)
\* vec![0u8; len] and read_file_at(file, &mut buf, offset). A buffer of
\* HUGE bytes or more is taken to exceed memory (capacity overflow, or a
\* failed allocation, which aborts). Linux: read_exact_at fills the buffer
\* or fails. Windows: seek_read returns how many bytes it read and leaves
\* the rest of the buffer zero.
read_file_at(file, len, offset, target_os) ==
  LET avail == IF offset >= Len(file) THEN 0 ELSE Len(file) - offset
      n == IF len <= avail THEN len ELSE avail
  IN
  IF len >= HUGE
    THEN [res |-> Panic("memory allocation failed"), n |-> 0, buf |-> Buf(<<>>)]
  ELSE IF target_os = "linux" THEN
    IF len = 0 THEN [res |-> Ok, n |-> 0, buf |-> Buf(<<>>)]
    ELSE IF len > avail
      THEN [res |-> io_error("UnexpectedEof", "failed to fill whole buffer"),
            n |-> 0, buf |-> Buf(<<>>)]
    ELSE [res |-> Ok, n |-> len, buf |-> Buf(SubSeq(file, offset + 1, offset + len))]
  ELSE
    [res |-> Ok, n |-> n,
     buf |-> [bytes |-> SubSeq(file, offset + 1, offset + n),
              pad |-> len - n, fill |-> 0]]

\* flate2's ZlibDecoder is outside the repository. The model's streams are
\* stored blocks: the zlib header byte 0x78, a length byte n, then exactly n
\* literal bytes. Anything else fails to inflate.
ZLIB_HEADER == 120
zlib_decompress(in_data, out_size) ==
  IF Len(in_data) >= 2 /\ in_data[1] = ZLIB_HEADER /\ Len(in_data) = 2 + in_data[2]
    THEN [some |-> TRUE, data |-> SubSeq(in_data, 3, Len(in_data))]
  ELSE [some |-> FALSE, data |-> <<>>]


(***************************************************************************)
(* The archive object (GfpPakReaderV10 / GfpPakReaderV7) as a record. The   *)
(* dialect-7 reader has no is_entry_paths_loaded and no entry_paths: they   *)
(* keep their initial value there. Its Entry has a path; the dialect-10     *)
(* Entry has none and keeps the empty one.                                  *)
(***************************************************************************)
DefaultInfo ==
  [encrypted |-> 0, magic |-> 0, version |-> 0, hash |-> Zeros(20),
   index_size |-> 0, index_offset |-> Zeros(8)]

DefaultEntry ==
  [file_hash |-> Zeros(20), file_offset |-> 0, file_size |-> 0,
   compression_method |-> 0, compressed_length |-> 0, dummy |-> Zeros(21),
   num_of_blocks |-> 0, blocks |-> <<>>, compressed_block_size |-> 0,
   encrypted |-> 0, path |-> <<>>]

\* new with the first flag initialised to true
new_loaded(varient, file) ==
  [varient |-> varient, file |-> file,
   is_info_loaded |-> TRUE, is_entries_loaded |-> FALSE,
   is_entry_paths_loaded |-> FALSE,
   info |-> DefaultInfo,
   index_data |-> Buf(<<>>), index_offset |-> 0, mount_point |-> <<>>,
   entries |-> <<>>, entry_paths |-> <<>>]

\* PakReader::new
new(varient, file) ==
  [varient |-> varient, file |-> file,
   is_info_loaded |-> FALSE, is_entries_loaded |-> FALSE,
   is_entry_paths_loaded |-> FALSE,
   info |-> DefaultInfo,
   index_data |-> Buf(<<>>), index_offset |-> 0, mount_point |-> <<>>,
   entries |-> <<>>, entry_paths |-> <<>>]

\* What a loader hands back: the object as the call left it, the result,
\* the loader bodies that ran past their "already loaded" guard, and the
\* stage in which the call stopped ("" when it did not stop).
Done(self, did) == [self |-> self, res |-> Ok, did |-> did, at |-> ""]
Stop(self, res, did, at) == [self |-> self, res |-> res, did |-> did, at |-> at]

\* std::mem::transmute of the 45 trailer bytes into RawPakInfo (packed)
RawPakInfo(buffer) ==
  [encrypted |-> buffer[1],
   magic |-> u32_from_le_bytes(SubSeq(buffer, 2, 5)),
   version |-> u32_from_le_bytes(SubSeq(buffer, 6, 9)),
   hash |-> SubSeq(buffer, 10, 29),
   index_size |-> SubSeq(buffer, 30, 37),
   index_offset |-> SubSeq(buffer, 38, 45)]

is_encrypted(info) == info.encrypted # 0

(***************************************************************************)
(* gfp_v10.rs load_pak_info                                                *)
(***************************************************************************)
Failed(x) == x.res.tag # "Ok"

\* the limit check with >= for >
check_index_size_inclusive(self, index_size) ==
  IF index_size >= MAX_INDEX_SIZE
    THEN Stop(self, invalid_data("Invalid index data size", <<index_size>>),
              {"info"}, "info")
  ELSE Done([self EXCEPT !.info.index_size = index_size,
                         !.is_info_loaded = TRUE], {"info"})

\* the limit check with is_info_loaded set above it
check_index_size_flag_first(self, index_size) ==
  IF index_size > MAX_INDEX_SIZE
    THEN Stop([self EXCEPT !.is_info_loaded = TRUE],
              invalid_data("Invalid index data size", <<index_size>>),
              {"info"}, "info")
  ELSE Done([self EXCEPT !.info.index_size = index_size,
                         !.is_info_loaded = TRUE], {"info"})

\* if index_size > 52428800 { return Err(..) }; self.info.index_size =
\* index_size; self.is_info_loaded = true
check_index_size(self, index_size) ==
  IF index_size > MAX_INDEX_SIZE
    THEN Stop(self, invalid_data("Invalid index data size", <<index_size>>),
              {"info"}, "info")
  ELSE Done([self EXCEPT !.info.index_size = index_size,
                         !.is_info_loaded = TRUE], {"info"})

\* seek(..)? - 45 at the position pos: an overflow panics, or wraps to a
\* size far above the limit
index_size_at(self, pos, env) ==
  IF pos < PAK_INFO_SIZE /\ env.overflow_checks
    THEN Stop(self, Panic("attempt to subtract with overflow"), {"info"}, "info")
  ELSE check_index_size(self, IF pos >= HUGE \/ pos < PAK_INFO_SIZE THEN HUGE
                              ELSE pos - PAK_INFO_SIZE)

\* seek(SeekFrom::End(-(index_offset as i64)))?
seek_from_end(self, off, env) ==
  IF off >= HUGE \/ (off > -HUGE /\ Len(self.file) - off < 0)
    THEN Stop(self, io_error("InvalidInput", "seek before byte 0"), {"info"}, "info")
  ELSE index_size_at(self, IF off <= -HUGE THEN HUGE ELSE Len(self.file) - off, env)

\* self.info = transmute(buffer), then the deobfuscation
set_info_v10(self, raw) ==
  [self EXCEPT !.info =
     [raw EXCEPT !.encrypted = xor_byte(raw.encrypted, ENCRYPTED_XOR_KEY),
                 !.index_size = u64_from_le_bytes(raw.index_size),
                 !.index_offset = xor_key(raw.index_offset, OFFSET_XOR_KEY)]]

derive_index_size(self, env) ==
  seek_from_end(self, i64_from_le_bytes(self.info.index_offset), env)

\* the body below the guard
read_pak_info_v10(self, env) ==
  IF Len(self.file) < PAK_INFO_SIZE
    \* file_size - 45 overflows, or the seek or read_exact it feeds fails:
    \* every path ends in a panic (overflow check or expect)
    THEN Stop(self, Panic("Unable to seek to pak header"), {"info"}, "info")
  ELSE derive_index_size(
         set_info_v10(self, RawPakInfo(SubSeq(self.file,
                                              Len(self.file) - PAK_INFO_SIZE + 1,
                                              Len(self.file)))),
         env)

\* load_pak_info without its `if self.is_info_loaded` guard
load_pak_info_v10_unguarded(self, env) == read_pak_info_v10(self, env)

load_pak_info_v10(self, env) ==
  IF self.is_info_loaded THEN Done(self, {}) ELSE read_pak_info_v10(self, env)

(***************************************************************************)
(* gfp_v7.rs load_pak_info                                                 *)
(***************************************************************************)
load_pak_info_v7(self, env) ==
  IF self.is_info_loaded THEN Done(self, {})
  ELSE
    LET file_size == Len(self.file) IN
    IF file_size < PAK_INFO_SIZE
      THEN Stop(self, Panic("Unable to seek to pak header"), {"info"}, "info")
    ELSE
      LET raw == RawPakInfo(SubSeq(self.file, file_size - PAK_INFO_SIZE + 1, file_size))
          info == [raw EXCEPT
                     !.encrypted = xor_byte(raw.encrypted, ENCRYPTED_XOR_KEY),
                     !.hash = xor_key(raw.hash, HASH_KEY),
                     !.index_offset = xor_key(raw.index_offset, OFFSET_XOR_KEY),
                     !.index_size =
                        u64_from_le_bytes(xor_key(raw.index_size, SIZE_XOR_KEY))]
      IN  Done([self EXCEPT !.info = info, !.is_info_loaded = TRUE], {"info"})

load_pak_info(self, env) ==
  IF self.varient = 10 THEN load_pak_info_v10(self, env)
  ELSE load_pak_info_v7(self, env)


(***************************************************************************)
(* load_entries: the index block and the entry table (the info field that  *)
(* dialect 7 calls offset is index_offset here too). A parse is threaded   *)
(* through a record: the cursor, the first failure (`?` returns it, and    *)
(* every later step leaves the record alone), and the value filled so far. *)
(***************************************************************************)
\* u64::from_le_bytes, u32::from_le_bytes, copy_from_slice and [0] of a read
decode(kind, data) ==
  CASE kind = "u64" -> u64_from_le_bytes(data)
    [] kind = "u32" -> u32_from_le_bytes(data)
    [] kind = "u8" -> data[1]
    [] OTHER -> data

\* entry.<field> = decode(index_cursor.read::<N>()?)
set_field(st, r, kind, field) ==
  IF Failed(r) THEN [st EXCEPT !.res = r.res]
  ELSE [st EXCEPT !.cur = r.cur, !.entry = [@ EXCEPT ![field] = decode(kind, r.data)]]

read_field(st, N, kind, field) ==
  IF Failed(st) THEN st ELSE set_field(st, read(st.cur, N), kind, field)

\* CompressionBlock { start: read::<8>()?, end: read::<8>()? } and the push
push_block(st, s, e) ==
  IF Failed(e) THEN [st EXCEPT !.res = e.res]
  ELSE [st EXCEPT !.cur = e.cur,
                  !.entry.blocks = Append(@, [start |-> u64_from_le_bytes(s.data),
                                              end |-> u64_from_le_bytes(e.data)])]

read_block_end(st, s) ==
  IF Failed(s) THEN [st EXCEPT !.res = s.res]
  ELSE push_block(st, s, read(s.cur, 8))

\* for _ in 0..entry.num_of_blocks { entry.blocks.push(CompressionBlock{..}) }
RECURSIVE read_blocks(_, _)
read_blocks(st, left) ==
  IF Failed(st) \/ left = 0 THEN st
  ELSE read_blocks(read_block_end(st, read(st.cur, 8)), left - 1)

\* if entry.compression_method != 0 { num_of_blocks, blocks } else { 0 }
read_num_of_blocks(st) ==
  IF Failed(st) THEN st
  ELSE IF st.entry.compression_method # 0
    THEN read_field(st, 4, "u32", "num_of_blocks")
  ELSE [st EXCEPT !.entry.num_of_blocks = 0]

read_entry_blocks(st) ==
  IF Failed(st) THEN st ELSE read_blocks(st, st.entry.num_of_blocks)

\* the fields every entry has, assigned to the entry in place one by one
\* (gfp_v10.rs 175-196, gfp_v7.rs 196-217)
read_entry_fields(st) ==
  read_field(read_field(read_entry_blocks(read_num_of_blocks(
    read_field(read_field(read_field(read_field(read_field(read_field(st,
      20, "bytes", "file_hash"),
      8, "u64", "file_offset"),
      8, "u64", "file_size"),
      4, "u32", "compression_method"),
      8, "u64", "compressed_length"),
      21, "bytes", "dummy"))),
    4, "u32", "compressed_block_size"),
    1, "u8", "encrypted")

\* CString::from_vec_with_nul(data)?.into_string()? of bytes read at cur
name_of(c, cur) == [res |-> c.res, str |-> c.str, cur |-> cur]

read_name_utf8(d) ==
  IF Failed(d) THEN [res |-> d.res, str |-> <<>>, cur |-> d.cur]
  ELSE name_of(cstring_into_string(d.data), d.cur)

name_of_utf16(u, cur) ==
  IF Failed(u) THEN [res |-> u.res, str |-> <<>>, cur |-> cur]
  ELSE name_of(cstring_into_string(u.data), cur)

read_name_utf16(d) ==
  IF Failed(d) THEN [res |-> d.res, str |-> <<>>, cur |-> d.cur]
  ELSE name_of_utf16(utf16le_to_utf8_inplace(d.data), d.cur)

\* a length-prefixed name: the size's sign selects UTF-8 (positive) or
\* UTF-16LE (negative, -size code units); zero goes with `utf16_if_zero`
\* (gfp_v10.rs 227-235: `if entry_path_size > 0`; gfp_v7.rs 185-193: `..0`)
read_name(cur, size, utf16_if_zero, env) ==
  IF size > 0 \/ (size = 0 /\ ~utf16_if_zero) THEN read_name_utf8(read_dyn(cur, size))
  ELSE IF size <= -HUGE THEN
    \* -entry_path_size * 2 overflows an i32
    [res |-> IF env.overflow_checks THEN Panic("attempt to multiply with overflow")
             ELSE io_error("InvalidData", "Read past end of buffer"),
     str |-> <<>>, cur |-> cur]
  ELSE read_name_utf16(read_dyn(cur, (-size) * 2))

\* dialect 7: the inline path that precedes an entry's fields
set_entry_path(st, nm) ==
  IF Failed(nm) THEN [st EXCEPT !.res = nm.res]
  ELSE [st EXCEPT !.cur = nm.cur, !.entry.path = nm.str]

read_entry_path_name(st, cur, entry_path_size, env) ==
  IF entry_path_size >= MAX_ENTRY_PATH
    THEN [st EXCEPT !.res = invalid_data("Entry path too long", <<entry_path_size>>)]
  ELSE set_entry_path(st, read_name(cur, entry_path_size, FALSE, env))

read_entry_path_size(st, s, env) ==
  IF Failed(s) THEN [st EXCEPT !.res = s.res]
  ELSE read_entry_path_name(st, s.cur, i32_from_le_bytes(s.data), env)

read_entry_path_v7(st, env) == read_entry_path_size(st, read(st.cur, 4), env)

\* one pass of the loop body over &mut self.entries[entry_id]
read_entry(st, varient, env) ==
  read_entry_fields(IF varient = 7 THEN read_entry_path_v7(st, env) ELSE st)

put_entry(es, entry_id, st) ==
  [res |-> st.res, cur |-> st.cur,
   entries |-> [es.entries EXCEPT ![entry_id + 1] = st.entry]]

\* for entry_id in 0..entry_count as usize { ... }: entries is the vector
\* being filled in place
RECURSIVE read_entries(_, _, _, _)
read_entries(es, entry_id, varient, env) ==
  IF Failed(es) \/ entry_id >= Len(es.entries) THEN es
  ELSE read_entries(
         put_entry(es, entry_id,
                   read_entry([res |-> Ok, cur |-> es.cur,
                               entry |-> es.entries[entry_id + 1]], varient, env)),
         entry_id + 1, varient, env)

\* index_cursor.read_dyn(mount_point_length - 9) after the cursor moved to
\* offset 13. Below 9 the usize subtraction overflows: a panic with overflow
\* checks; without them the length wraps, offset + length wraps back to
\* mount_point_length + 4, and read_dyn either reports the end of the buffer
\* or slices 13 .. mount_point_length + 4, which panics.
read_mount_point(cur, mount_point_length, env) ==
  IF mount_point_length >= 9 THEN read_dyn(cur, mount_point_length - 9)
  ELSE IF env.overflow_checks
    THEN [res |-> Panic("attempt to subtract with overflow"),
          data |-> <<>>, cur |-> cur]
  ELSE IF mount_point_length + 4 > BufLen(cur.buffer)
    THEN [res |-> io_error("InvalidData", "Read past end of buffer"),
          data |-> <<>>, cur |-> cur]
  ELSE [res |-> Panic("slice index starts after its end"),
        data |-> <<>>, cur |-> cur]

\* The body of a loader is threaded through a record too: the object, the
\* first failure, the index cursor, and mount_point_data.
Loading(self) ==
  [self |-> self, res |-> Ok, cur |-> VecCursor_new(self.index_data), mount |-> <<>>]

\* self.index_data = index_data, decrypted when the trailer says so
set_index_data(self, rd) ==
  IF Failed(rd) THEN [Loading(self) EXCEPT !.res = rd.res]
  ELSE Loading([self EXCEPT !.index_data =
                  IF is_encrypted(self.info)
                    THEN xor_each_byte_buf(rd.buf, DECRYPT_KEY) ELSE rd.buf])

read_index_data(self, env) ==
  set_index_data(self, read_file_at(self.file, self.info.index_size,
                                    u64_from_le_bytes(self.info.index_offset),
                                    env.target_os))

set_mount_point_data(p, mp) ==
  IF Failed(mp) THEN [p EXCEPT !.res = mp.res]
  ELSE [p EXCEPT !.cur = mp.cur, !.mount = mp.data]

read_mount_point_data(p, ml, env) ==
  IF Failed(ml) THEN [p EXCEPT !.res = ml.res]
  ELSE set_mount_point_data(p,
         read_mount_point(move_by(ml.cur, 9), u32_from_le_bytes(ml.data), env))

read_mount_point_length(p, env) ==
  IF Failed(p) THEN p ELSE read_mount_point_data(p, read_nocheck(p.cur, 4), env)

\* self.entries = vec![Entry {..}; entry_count as usize]
alloc_entries(p, cur, entry_count) ==
  IF entry_count < 0 THEN [p EXCEPT !.res = Panic("capacity overflow")]
  ELSE IF entry_count >= HUGE
    THEN [p EXCEPT !.res = Panic("memory allocation failed")]
  ELSE [p EXCEPT !.cur = cur,
                 !.self.entries = [i \in 1 .. entry_count |-> DefaultEntry]]

set_entry_count(p, ec) ==
  IF Failed(ec) THEN [p EXCEPT !.res = ec.res]
  ELSE alloc_entries(p, ec.cur, i32_from_le_bytes(ec.data))

read_entry_count(p) ==
  IF Failed(p) THEN p ELSE set_entry_count(p, read_nocheck(p.cur, 4))

set_entries(p, es) ==
  [p EXCEPT !.res = es.res, !.cur = es.cur, !.self.entries = es.entries]

load_entry_table(p, env) ==
  IF Failed(p) THEN p
  ELSE set_entries(p, read_entries([res |-> Ok, cur |-> p.cur,
                                    entries |-> p.self.entries],
                                   0, p.self.varient, env))

\* self.mount_point = ...; self.index_offset = index_cursor.offset;
\* self.is_entries_loaded = true
set_mount_point(p, m) ==
  IF Failed(m) THEN [p EXCEPT !.res = m.res]
  ELSE [p EXCEPT !.self.mount_point = m.str,
                 !.self.index_offset = p.cur.offset,
                 !.self.is_entries_loaded = TRUE]

finish_entries(p) ==
  IF Failed(p) THEN p ELSE set_mount_point(p, cstring_into_string(p.mount))

\* the loader's answer from the threaded record
Loaded(p, did, at) ==
  [self |-> p.self, res |-> p.res, did |-> did,
   at |-> IF Failed(p) THEN at ELSE ""]

\* The body of load_entries once the trailer is loaded (gfp_v10.rs 134-203,
\* gfp_v7.rs 134-225): read the index block, then parse it. `did` are the
\* loader bodies that ran before.
load_entries_body(self, env, did) ==
  Loaded(finish_entries(load_entry_table(read_entry_count(
           read_mount_point_length(read_index_data(self, env), env)), env)),
         did \cup {"entries"}, "entries")

\* gfp_v10.rs load_entries: the guard, then the trailer, then the body
load_entries_after_info(i, env) ==
  IF Failed(i) THEN i ELSE load_entries_body(i.self, env, i.did)

load_entries_v10(self, env) ==
  IF self.is_entries_loaded THEN Done(self, {})
  ELSE load_entries_after_info(load_pak_info_v10(self, env), env)

\* gfp_v7.rs load_entries: the trailer, then the guard, then the body
load_entries_guard_v7(i, env) ==
  IF Failed(i) THEN i
  ELSE IF i.self.is_entries_loaded THEN Done(i.self, i.did)
  ELSE load_entries_body(i.self, env, i.did)

load_entries_v7(self, env) == load_entries_guard_v7(load_pak_info_v7(self, env), env)

load_entries(self, env) ==
  IF self.varient = 10 THEN load_entries_v10(self, env)
  ELSE load_entries_v7(self, env)

(***************************************************************************)
(* gfp_v10.rs load_entry_paths: the directory table that follows the       *)
(* entries in the index block.                                             *)
(***************************************************************************)
\* self.entry_paths[entry_id as usize] = format!("{}{}{}", ...)
set_entry_path_of(p, cur, entry_id, path) ==
  IF entry_id < 0
    THEN [p EXCEPT !.res = invalid_data("Negative entry_id", <<entry_id>>)]
  ELSE IF entry_id >= Len(p.self.entry_paths)
    THEN [p EXCEPT !.res = Panic("index out of bounds")]
  ELSE [p EXCEPT !.cur = cur, !.self.entry_paths[entry_id + 1] = path]

read_file_entry_id(p, e, path) ==
  IF Failed(e) THEN [p EXCEPT !.res = e.res]
  ELSE set_entry_path_of(p, e.cur, i32_from_le_bytes(e.data), path)

\* a path without the mount point in front
read_file_name_unmounted(p, nm, dir_name) ==
  IF Failed(nm) THEN [p EXCEPT !.res = nm.res]
  ELSE read_file_entry_id(p, read(nm.cur, 4), dir_name \o nm.str)

read_file_name(p, nm, dir_name) ==
  IF Failed(nm) THEN [p EXCEPT !.res = nm.res]
  ELSE read_file_entry_id(p, read(nm.cur, 4),
                          p.self.mount_point \o dir_name \o nm.str)

read_file_name_size(p, s, dir_name, env) ==
  IF Failed(s) THEN [p EXCEPT !.res = s.res]
  ELSE read_file_name(p, read_name(s.cur, i32_from_le_bytes(s.data), TRUE, env),
                      dir_name)

\* for _ in 0..dir_files { ... }: self.entry_paths is filled in place
RECURSIVE read_dir_files(_, _, _, _)
read_dir_files(p, left, dir_name, env) ==
  IF Failed(p) \/ left = 0 THEN p
  ELSE read_dir_files(read_file_name_size(p, read(p.cur, 4), dir_name, env),
                      IF left >= HUGE THEN HUGE ELSE left - 1, dir_name, env)

read_dir_file_count(p, n, dir_name, env) ==
  IF Failed(n) THEN [p EXCEPT !.res = n.res]
  ELSE read_dir_files([p EXCEPT !.cur = n.cur], u64_from_le_bytes(n.data),
                      dir_name, env)

read_dir_after_name(p, cur, dir_name, env) ==
  IF Failed(dir_name) THEN [p EXCEPT !.res = dir_name.res]
  ELSE read_dir_file_count(p, read(cur, 8), dir_name.str, env)

read_dir_name(p, d, env) ==
  IF Failed(d) THEN [p EXCEPT !.res = d.res]
  ELSE read_dir_after_name(p, d.cur, cstring_into_string(d.data), env)

read_dir_len(p, l, env) ==
  IF Failed(l) THEN [p EXCEPT !.res = l.res]
  ELSE read_dir_name(p, read_dyn(l.cur, u32_from_le_bytes(l.data)), env)

\* for _ in 0..dir_count { ... }
RECURSIVE read_dirs(_, _, _)
read_dirs(p, left, env) ==
  IF Failed(p) \/ left = 0 THEN p
  ELSE read_dirs(read_dir_len(p, read(p.cur, 4), env),
                 IF left >= HUGE THEN HUGE ELSE left - 1, env)

\* self.entry_paths = vec![String::new(); entry_count as usize], then the
\* directories
alloc_entry_paths(p, cur, entry_count, dir_count, env) ==
  IF entry_count >= HUGE THEN [p EXCEPT !.res = Panic("memory allocation failed")]
  ELSE read_dirs([p EXCEPT !.cur = cur,
                           !.self.entry_paths = [i \in 1 .. entry_count |-> <<>>]],
                 dir_count, env)

read_dir_count(p, ec, dc, env) ==
  IF Failed(dc) THEN [p EXCEPT !.res = dc.res]
  ELSE alloc_entry_paths(p, dc.cur, u64_from_le_bytes(ec.data),
                         u64_from_le_bytes(dc.data), env)

read_path_entry_count(p, ec, env) ==
  IF Failed(ec) THEN [p EXCEPT !.res = ec.res]
  ELSE read_dir_count(p, ec, read(ec.cur, 8), env)

set_entry_paths_loaded(p) ==
  IF Failed(p) THEN p ELSE [p EXCEPT !.self.is_entry_paths_loaded = TRUE]

load_entry_paths_body(self, env, did) ==
  Loaded(set_entry_paths_loaded(
           read_path_entry_count(
             Loading(self),
             read(VecCursor_new_with_offset(self.index_data, self.index_offset), 8),
             env)),
         did \cup {"paths"}, "paths")

load_entry_paths_after_entries(e, env) ==
  IF Failed(e) THEN e ELSE load_entry_paths_body(e.self, env, e.did)

load_entry_paths(self, env) ==
  IF self.is_entry_paths_loaded THEN Done(self, {})
  ELSE load_entry_paths_after_entries(load_entries_v10(self, env), env)


(***************************************************************************)
(* extract_entry_to_file and the accessors of the PakReader trait. Each    *)
(* hands back the loader's record extended with the value returned (val,   *)
(* <<v>> or <<>>) and the bytes written to the output file (out).          *)
(***************************************************************************)
\* what an accessor returns: a bool, a number, a String, or nothing
NoVal == [is |-> "none", flag |-> FALSE, num |-> 0, str |-> <<>>]
BoolVal(b) == [NoVal EXCEPT !.is = "bool", !.flag = b]
NumVal(n) == [NoVal EXCEPT !.is = "num", !.num = n]
StrVal(s) == [NoVal EXCEPT !.is = "string", !.str = s]

Ret(l, val, out) ==
  [self |-> l.self, res |-> l.res, did |-> l.did, at |-> l.at,
   val |-> val, out |-> out]
Fail(l, res, out) ==
  [self |-> l.self, res |-> res, did |-> l.did, at |-> "call",
   val |-> NoVal, out |-> out]

\* if entry.encrypted != 0 { xor_each_byte(&mut data, Self::DECRYPT_KEY) }
decrypt_chunk(entry, data) ==
  IF entry.encrypted # 0 THEN xor_each_byte(data, DECRYPT_KEY) ELSE data

\* output.write_all(&decompressed_data)?
\* a sink that puts each write in front of what it holds
write_all_front(x, data) == [x EXCEPT !.out = data \o @]

write_all(x, data) == [x EXCEPT !.out = @ \o data]

inflate_block(x, z) ==
  IF ~z.some THEN [x EXCEPT !.res = io_error("Other", "ZLIB decompression failed")]
  ELSE write_all(x, z.data)

\* one pass of `for block in &entry.blocks`, from the read's answer on
extract_block_data(entry, block, size, x, rd) ==
  IF Failed(rd) THEN [x EXCEPT !.res = rd.res]
  ELSE IF rd.n # size
    THEN [x EXCEPT !.res = invalid_data("Failed to read compressed chunk",
                                        <<block.start, rd.n, size>>)]
  ELSE IF entry.compression_method # 1
    THEN [x EXCEPT !.res = invalid_data("Unknown compression method",
                                        <<entry.compression_method>>)]
  ELSE inflate_block(x, zlib_decompress(decrypt_chunk(entry, BufBytes(rd.buf)),
                                        entry.compressed_block_size))

extract_block_sized(file, entry, block, size, x, env) ==
  extract_block_data(entry, block, size, x,
                     read_file_at(file, size, block.start, env.target_os))

\* block.size() = end - start: an overflow panics, or wraps to a size no
\* allocation can serve
extract_block(file, entry, block, x, env) ==
  IF block.end < block.start
    THEN [x EXCEPT !.res =
            IF env.overflow_checks THEN Panic("attempt to subtract with overflow")
            ELSE Panic("memory allocation failed")]
  ELSE extract_block_sized(file, entry, block,
                           IF block.end >= HUGE THEN HUGE ELSE block.end - block.start,
                           x, env)

\* for block in &entry.blocks { ... }
RECURSIVE extract_blocks(_, _, _, _, _)
extract_blocks(file, entry, b, x, env) ==
  IF Failed(x) \/ b > Len(entry.blocks) THEN x
  ELSE extract_blocks(file, entry, b + 1,
                      extract_block(file, entry, entry.blocks[b], x, env), env)

extract_raw_chunk(entry, x, rd) ==
  IF Failed(rd) THEN [x EXCEPT !.res = rd.res]
  ELSE write_all(x, decrypt_chunk(entry, BufBytes(rd.buf)))

min(a, b) == IF a < b THEN a ELSE b

\* while file_size > 0 { ... }
RECURSIVE extract_raw(_, _, _, _, _, _)
extract_raw(file, entry, file_offset, file_size, x, env) ==
  IF Failed(x) \/ ~(file_size > 0) THEN x
  ELSE extract_raw(file, entry,
                   file_offset + min(file_size, CHUNK_SIZE),
                   file_size - min(file_size, CHUNK_SIZE),
                   extract_raw_chunk(entry, x,
                     read_file_at(file, min(file_size, CHUNK_SIZE), file_offset,
                                  env.target_os)),
                   env)

extract_entry(file, entry, env) ==
  IF entry.num_of_blocks > 0
    THEN extract_blocks(file, entry, 1, [res |-> Ok, out |-> <<>>], env)
  ELSE extract_raw(file, entry, entry.file_offset + RAW_HEADER_SIZE, entry.file_size,
                   [res |-> Ok, out |-> <<>>], env)

\* an extraction whose failure also drops the loaded entry table
extract_result_dropping(l, x) ==
  IF Failed(x)
    THEN Fail([l EXCEPT !.self.entries = <<>>, !.self.is_entries_loaded = FALSE],
              x.res, x.out)
  ELSE Ret(l, NoVal, x.out)

extract_result(l, x) ==
  IF Failed(x) THEN Fail(l, x.res, x.out) ELSE Ret(l, NoVal, x.out)

extract_loaded(l, entry_id, env) ==
  IF Failed(l) THEN Ret(l, NoVal, <<>>)
  ELSE IF entry_id >= Len(l.self.entries)
    THEN Fail(l, Panic("index out of bounds"), <<>>)
  ELSE extract_result(l, extract_entry(l.self.file, l.self.entries[entry_id + 1], env))

extract_entry_to_file(self, entry_id, env) ==
  extract_loaded(load_entries(self, env), entry_id, env)

encrypted_of(l) ==
  IF Failed(l) THEN Ret(l, NoVal, <<>>)
  ELSE Ret(l, BoolVal(is_encrypted(l.self.info)), <<>>)

encrypted(self, env) == encrypted_of(load_pak_info(self, env))

version_of(l) ==
  IF Failed(l) THEN Ret(l, NoVal, <<>>)
  ELSE Ret(l, NumVal(l.self.info.version), <<>>)

\* a version() that loads the entries as well
version_eager(self, env) == version_of(load_entries(self, env))

version(self, env) == version_of(load_pak_info(self, env))

entries_count_of(l) ==
  IF Failed(l) THEN Ret(l, NoVal, <<>>)
  ELSE Ret(l, NumVal(Len(l.self.entries)), <<>>)

entries_count(self, env) == entries_count_of(load_entries(self, env))

entry_path_of_v10(l, entry_id) ==
  IF Failed(l) THEN Ret(l, NoVal, <<>>)
  ELSE IF entry_id >= Len(l.self.entry_paths)
    THEN Fail(l, Panic("index out of bounds"), <<>>)
  ELSE Ret(l, StrVal(l.self.entry_paths[entry_id + 1]), <<>>)

get_entry_path_v10(self, entry_id, env) ==
  entry_path_of_v10(load_entry_paths(self, env), entry_id)

entry_path_of_v7(l, entry_id) ==
  IF Failed(l) THEN Ret(l, NoVal, <<>>)
  ELSE IF entry_id >= Len(l.self.entries)
    THEN Fail(l, Panic("index out of bounds"), <<>>)
  ELSE Ret(l, StrVal(l.self.entries[entry_id + 1].path), <<>>)

get_entry_path_v7(self, entry_id, env) ==
  entry_path_of_v7(load_entries_v7(self, env), entry_id)

get_entry_path(self, entry_id, env) ==
  IF self.varient = 10 THEN get_entry_path_v10(self, entry_id, env)
  ELSE get_entry_path_v7(self, entry_id, env)


(***************************************************************************)
(* The pak files the model opens, written out byte by byte in the wire     *)
(* layout the readers parse: payload area, index block, 45-byte trailer.   *)
(***************************************************************************)
\* the payload area: a 74-byte duplicate entry header, three raw bytes at
\* 74, a stored zlib block at 77..81, another at 81..84, and at 84..87 one
\* that is a zlib block once XORed with DECRYPT_KEY
Payload ==
  Zeros(RAW_HEADER_SIZE) \o <<1, 2, 3>> \o <<ZLIB_HEADER, 2, 7, 8>>
    \o <<ZLIB_HEADER, 1, 9>> \o xor_each_byte(<<ZLIB_HEADER, 1, 5>>, DECRYPT_KEY)

\* names as the index stores them: the size field and the bytes after it
NameA == [size |-> 2, bytes |-> <<97, 0>>]
NameUtf16 == [size |-> -2, bytes |-> <<65, 0, 0, 0>>]
NameEmpty == [size |-> 1, bytes |-> <<0>>]
NameMixed == [size |-> -3, bytes |-> <<65, 0, 45, 78, 0, 0>>]
NameCjk == [size |-> -2, bytes |-> <<45, 78, 0, 0>>]

Blk(start, end) == [start |-> start, end |-> end]

Kind(method, blocks, file_size, enc, name) ==
  [compression_method |-> method, blocks |-> blocks, file_offset |-> 0,
   file_size |-> file_size, encrypted |-> enc,
   compressed_block_size |-> 2, name |-> name]

\* the kinds of entry the generated archives hold
EntryKinds ==
  << Kind(0, <<>>, 3, 0, NameA),                          \* raw
     Kind(1, << Blk(77, 81) >>, 2, 0, NameUtf16),         \* one zlib block
     Kind(2, <<>>, 3, 0, NameA),                          \* method 2, no block
     Kind(2, << Blk(77, 81) >>, 2, 0, NameMixed),         \* method 2, one block
     Kind(0, <<>>, 3, 1, NameEmpty),                      \* raw, encrypted
     Kind(1, << Blk(84, 87) >>, 1, 1, NameA),             \* zlib, encrypted
     Kind(1, << Blk(77, 81), Blk(81, 84) >>, 3, 0, NameA),\* two zlib blocks
     Kind(1, << Blk(74, 77) >>, 3, 0, NameA),             \* not a zlib stream
     Kind(1, << Blk(77, 81), Blk(9000, 9004) >>, 2, 0, NameA), \* block past the end
     Kind(0, <<>>, 0, 0, NameA),                          \* empty raw entry
     [Kind(0, <<>>, 3, 0, NameA) EXCEPT !.file_offset = 2000] >> \* raw, past the end

NameField(name) == le_int(name.size, 4) \o name.bytes

EntryBytes(e, varient) ==
  (IF varient = 7 THEN NameField(e.name) ELSE <<>>)
    \o Zeros(20) \o le_bytes(e.file_offset, 8) \o le_bytes(e.file_size, 8)
    \o le_bytes(e.compression_method, 4) \o le_bytes(0, 8) \o Zeros(21)
    \o (IF e.compression_method # 0
          THEN le_bytes(Len(e.blocks), 4)
                 \o Flat([b \in 1 .. Len(e.blocks) |->
                            le_bytes(e.blocks[b].start, 8)
                              \o le_bytes(e.blocks[b].end, 8)])
          ELSE <<>>)
    \o le_bytes(e.compressed_block_size, 4) \o <<e.encrypted>>

FileRecordBytes(f) == NameField(f.name) \o le_int(f.id, 4)

DirBytes(d) ==
  le_bytes(Len(d.name), 4) \o d.name \o le_bytes(Len(d.files), 8)
    \o Flat([f \in 1 .. Len(d.files) |-> FileRecordBytes(d.files[f])])

PathTableBytes(t) ==
  le_bytes(t.entry_count, 8) \o le_bytes(Len(t.dirs), 8)
    \o Flat([d \in 1 .. Len(t.dirs) |-> DirBytes(t.dirs[d])])

IndexBytes(a) ==
  LET whole ==
        le_bytes(a.mount_point_length, 4) \o Zeros(9) \o a.mount
          \o le_int(a.entry_count, 4)
          \o Flat([i \in 1 .. Len(a.entries) |-> EntryBytes(a.entries[i], a.varient)])
          \o (IF a.varient = 10 THEN PathTableBytes(a.paths) ELSE <<>>)
      cut == IF a.keep < 0 \/ a.keep > Len(whole) THEN whole
             ELSE SubSeq(whole, 1, a.keep)
  IN  IF a.enc # 0 THEN xor_each_byte(cut, DECRYPT_KEY) ELSE cut

\* the whole file: a.offset and a.size are what the trailer says once
\* deobfuscated, given relative to the true values
FileBytes(a) ==
  LET index == IndexBytes(a)
      file_size == Len(Payload) + Len(index) + PAK_INFO_SIZE
      off == CASE a.offset = "start" -> Len(Payload)
               [] a.offset = "limit" -> file_size - PAK_INFO_SIZE - MAX_INDEX_SIZE
               [] a.offset = "over" -> file_size - PAK_INFO_SIZE - MAX_INDEX_SIZE - 1
               [] a.offset = "trailer" -> file_size - 10
               [] a.offset = "before" -> file_size + 5
      size == CASE a.size = "index" -> Len(index)
                [] a.size = "over" -> MAX_INDEX_SIZE + 1
                [] a.size = "past" -> Len(index) + 100
  IN  Payload \o index
        \o <<xor_byte(a.enc, ENCRYPTED_XOR_KEY)>> \o <<80, 65, 75, 0>>
        \o le_bytes(a.version, 4) \o Zeros(20)
        \o (IF a.varient = 7 THEN xor_key(le_bytes(size, 8), SIZE_XOR_KEY)
            ELSE le_bytes(size, 8))
        \o xor_key(le_int(off, 8), OFFSET_XOR_KEY)


Mount == <<109, 47, 0>>
DirName == <<100, 47, 0>>

\* an archive of n entries whose kinds start at kind k + 1, with all its
\* fields consistent
Base(varient, enc, n, k) ==
  LET entries == [i \in 1 .. n |-> EntryKinds[((k + i - 1) % Len(EntryKinds)) + 1]] IN
  [varient |-> varient, enc |-> enc, version |-> varient + enc,
   mount |-> Mount, mount_point_length |-> 9 + Len(Mount),
   entry_count |-> n, entries |-> entries,
   paths |-> [entry_count |-> n,
              dirs |-> << [name |-> DirName,
                           files |-> [i \in 1 .. n |->
                                        [name |-> entries[i].name, id |-> i - 1]]] >>],
   keep |-> -1, offset |-> "start", size |-> "index"]

Sizes == 1 .. MaxEntries

WellFormed ==
  {Base(v, 0, n, k) : v \in {7, 10}, n \in Sizes, k \in 0 .. Len(EntryKinds) - 1}
    \cup {Base(v, 1, n, 0) : v \in {7, 10}, n \in Sizes}
    \cup {Base(v, e, 0, 0) : v \in {7, 10}, e \in {0, 1}}

\* dialect 10 archives whose directory table is off
BadPaths ==
  UNION {
    LET b == Base(10, 0, n, 0)
        files == b.paths.dirs[1].files
    IN  { [b EXCEPT !.paths.dirs[1].files[n].id = -1],
          [b EXCEPT !.paths.dirs[1].files[n].id = n],
          [b EXCEPT !.paths.dirs[1].files =
                       << [name |-> NameA, id |-> n], [name |-> NameA, id |-> -1] >>],
          [b EXCEPT !.paths.dirs[1].files = << [name |-> NameA, id |-> -1] >> \o files],
          [b EXCEPT !.paths.entry_count = n - 1,
                    !.paths.dirs[1].files = SubSeq(files, 1, n - 1)],
          [b EXCEPT !.paths.entry_count = n + 1],
          [b EXCEPT !.paths.dirs = <<>>],
          [b EXCEPT !.paths.dirs[1].files[1].name = NameCjk],
          [b EXCEPT !.mount = <<0>>, !.mount_point_length = 10,
                    !.paths.dirs[1].name = <<0>>,
                    !.paths.dirs[1].files[1].name = NameEmpty] }
    : n \in Sizes }

\* archives whose trailer points somewhere else
BadTrailers ==
  {[Base(10, 0, 1, 0) EXCEPT !.offset = o] :
      o \in {"limit", "over", "trailer", "before"}}
    \cup {[Base(7, 0, 1, 0) EXCEPT !.size = z] : z \in {"over", "past"}}

\* index blocks cut short after so many bytes
Cuts == {0, 3, 4, 12, 15, 16, 19, 20, 50, 93, 94, 100}

BadIndexes ==
  UNION {
    LET b == Base(v, 0, 1, 0) IN
    {[b EXCEPT !.keep = c] : c \in Cuts}
      \cup { [b EXCEPT !.mount_point_length = 5],
             [b EXCEPT !.mount = <<109>>, !.mount_point_length = 10],
             [b EXCEPT !.entry_count = -1],
             [b EXCEPT !.entry_count = 2] }
    : v \in {7, 10} }

Archives == WellFormed \cup BadPaths \cup BadTrailers \cup BadIndexes

\* the files, each with the dialect it is opened as; the last two are too
\* short to hold a trailer
Paks ==
  {[varient |-> a.varient, file |-> FileBytes(a)] : a \in Archives}
    \cup {[varient |-> v, file |-> <<1, 2, 3>>] : v \in {7, 10}}

\* the builds: overflow checks on (debug) or off (release), and the target
\* of the cfg(target_os) in read_file_at
Envs == [overflow_checks : BOOLEAN, target_os : {"linux", "windows"}]

\* the entry ids a caller passes
Ids == 0 .. MaxEntries

(***************************************************************************)
(* The state: one archive object and what its last call returned.          *)
(***************************************************************************)
VARIABLES
  pak,        \* the GfpPakReaderV10 / GfpPakReaderV7 object
  env,        \* the build that runs
  last,       \* the last call: op, id, result, value, output, loaders run,
              \* the stage it stopped in, whether that stage had failed before
  first_ok,   \* per accessor, the value its first successful call returned
  first_err,  \* per stage, the error its first failed load returned
  buff,       \* the buffer handed to the UTF-16LE converter
  conv,       \* what the converter returned
  pair,       \* two archive objects of one process
  cli,        \* a run of the command line tool
  run         \* a loader or an extraction, one loop iteration at a time

vars == <<pak, env, last, first_ok, first_err, buff, conv, pair, cli, run>>

Stages == {"info", "entries", "paths"}
ValueOps == {"encrypted", "version", "entries_count"}

NoCall ==
  [op |-> "new", id |-> 0, res |-> Ok, val |-> NoVal, out |-> <<>>,
   did |-> {}, at |-> "", again |-> FALSE]
NoConv == [done |-> FALSE, op |-> "", orig |-> <<>>, res |-> Ok, n |-> 0]
NoOutcome == [res |-> Ok, val |-> NoVal, out |-> <<>>]
NoPair ==
  [obj |-> <<>>, alone |-> <<>>, who |-> 0, got |-> NoOutcome, want |-> NoOutcome,
   failed |-> {}, dead |-> FALSE]
NoCli ==
  [cmd |-> "", varient |-> 0, arg |-> <<>>, file_pattern |-> <<>>,
   fs |-> [pattern_ok |-> TRUE, matches |-> <<>>],
   stage |-> "", paths |-> <<>>, yielded |-> <<>>, log |-> <<>>, exit |-> ""]
\* at: the loop the call is in, "idle" between calls, "dead" after a panic;
\* call, id, res: the last call and what it returned; from: the loop it
\* returned from; steps: the passes of its loops so far; p: the object and
\* the index cursor; the rest are the locals of the loops
NoRun ==
  [at |-> "", from |-> "", call |-> "", id |-> 0, res |-> Ok, steps |-> 0,
   p |-> Loading(new(10, <<>>)),
   entry_id |-> 0, entry |-> DefaultEntry, left |-> 0,
   dirs |-> 0, files |-> 0, dir_name |-> <<>>,
   x |-> [res |-> Ok, out |-> <<>>], b |-> 0, file_offset |-> 0, file_size |-> 0]

Init ==
  /\ \E p \in Paks : pak = new(p.varient, p.file)
  /\ env \in Envs
  /\ last = NoCall
  /\ first_ok = [o \in ValueOps |-> NoVal]
  /\ first_err = [st \in Stages |-> <<>>]
  /\ buff = <<>>
  /\ conv = NoConv
  /\ pair = NoPair
  /\ cli = NoCli
  /\ run = NoRun

\* a panic unwinds out of main: no later call
Alive == last.res.tag # "Panic"

\* the state after a call that returned r
Step(op, id, r) ==
  /\ pak' = r.self
  /\ last' = [op |-> op, id |-> id, res |-> r.res, val |-> r.val, out |-> r.out,
              did |-> r.did, at |-> r.at,
              again |-> r.res.tag = "Err" /\ r.at \in Stages /\ first_err[r.at] # <<>>]
  /\ first_ok' = IF op \in ValueOps /\ r.res.tag = "Ok" /\ first_ok[op] = NoVal
                   THEN [first_ok EXCEPT ![op] = r.val]
                 ELSE first_ok
  /\ first_err' = IF r.res.tag = "Err" /\ r.at \in Stages /\ first_err[r.at] = <<>>
                    THEN [first_err EXCEPT ![r.at] = <<r.res>>]
                  ELSE first_err
  /\ UNCHANGED <<env, buff, conv, pair, cli, run>>

Encrypted == Alive /\ Step("encrypted", 0, encrypted(pak, env))

Version == Alive /\ Step("version", 0, version(pak, env))

EntriesCount == Alive /\ Step("entries_count", 0, entries_count(pak, env))

GetEntryPath(id) == Alive /\ Step("get_entry_path", id, get_entry_path(pak, id, env))

ExtractEntryToFile(id) ==
  Alive /\ Step("extract_entry_to_file", id, extract_entry_to_file(pak, id, env))

Next ==
  \/ Encrypted
  \/ Version
  \/ EntriesCount
  \/ \E id \in Ids : GetEntryPath(id)
  \/ \E id \in Ids : ExtractEntryToFile(id)

Spec == Init /\ [][Next]_vars

(***************************************************************************)
(* The converter on its own: every buffer of at most MaxBuf bytes over a   *)
(* few bytes that make ASCII, two-byte, three-byte and surrogate units.    *)
(***************************************************************************)
UtfBytes == {0, 7, 45, 65, 78, 128, 216}

RECURSIVE SeqsUpTo(_, _)
SeqsUpTo(S, n) ==
  IF n = 0 THEN {<<>>}
  ELSE LET shorter == SeqsUpTo(S, n - 1) IN
       shorter \cup {Append(q, x) : q \in {t \in shorter : Len(t) = n - 1}, x \in S}

InitUtf ==
  /\ pak = new(10, <<>>)
  /\ env = [overflow_checks |-> TRUE, target_os |-> "linux"]
  /\ last = NoCall
  /\ first_ok = [o \in ValueOps |-> NoVal]
  /\ first_err = [st \in Stages |-> <<>>]
  /\ buff \in SeqsUpTo(UtfBytes, MaxBuf)
  /\ conv = NoConv
  /\ pair = NoPair
  /\ cli = NoCli
  /\ run = NoRun

\* utf16le_to_utf8_arr_inplace(&mut buff)
ConvertArr ==
  /\ ~conv.done
  /\ LET r == utf16le_to_utf8_arr_inplace(buff) IN
       /\ buff' = r.buff
       /\ conv' = [done |-> TRUE, op |-> "arr", orig |-> buff, res |-> r.res, n |-> r.n]
  /\ UNCHANGED <<pak, env, last, first_ok, first_err, pair, cli, run>>

\* utf16le_to_utf8_inplace(&mut vec)
ConvertVec ==
  /\ ~conv.done
  /\ LET r == utf16le_to_utf8_inplace(buff) IN
       /\ buff' = r.data
       /\ conv' = [done |-> TRUE, op |-> "vec", orig |-> buff, res |-> r.res,
                   n |-> Len(r.data)]
  /\ UNCHANGED <<pak, env, last, first_ok, first_err, pair, cli, run>>

NextUtf == ConvertArr \/ ConvertVec

SpecUtf == InitUtf /\ [][NextUtf]_vars

(***************************************************************************)
(* Two archive objects in one process, called in any interleaving. Next to *)
(* each object the model keeps the object that the same calls give when    *)
(* they are made with no other archive around (alone), and next to the     *)
(* outcome of the last call (got) the outcome of that call there (want).   *)
(***************************************************************************)
\* the archives opened in pairs, and later by the command line tool
SampleArchives ==
  { Base(10, 0, 2, 0),                                  \* sound, two entries
    Base(10, 0, 1, 3),                                  \* extraction fails
    [Base(10, 0, 1, 0) EXCEPT !.offset = "over"],       \* trailer fails
    [Base(10, 0, 1, 0) EXCEPT !.paths.dirs[1].files[1].id = -1], \* paths fail
    Base(7, 0, 1, 0),                                   \* sound
    Base(7, 0, 1, 3),                                   \* extraction fails
    [Base(7, 0, 1, 0) EXCEPT !.keep = 4] }              \* entries fail

SamplePaks == {[varient |-> a.varient, file |-> FileBytes(a)] : a \in SampleArchives}

PairIds == {0, 1}

Ops ==
  {"encrypted", "version", "entries_count", "get_entry_path",
   "extract_entry_to_file"}

\* a call of a PakReader method on a Box<dyn PakReader>
Apply(op, self, id, e) ==
  CASE op = "encrypted" -> encrypted(self, e)
    [] op = "version" -> version(self, e)
    [] op = "entries_count" -> entries_count(self, e)
    [] op = "get_entry_path" -> get_entry_path(self, id, e)
    [] op = "extract_entry_to_file" -> extract_entry_to_file(self, id, e)

CallOutcome(r) == [res |-> r.res, val |-> r.val, out |-> r.out]

\* readers whose cached stages are one shared copy
call_on_shared(objs, k, r) ==
  [j \in DOMAIN objs |->
     [r.self EXCEPT !.varient = objs[j].varient, !.file = objs[j].file]]

\* &mut self: a method writes the fields of the object it is called on,
\* and every field is owned by the object (the File too)
call_on(objs, k, r) == [objs EXCEPT ![k] = r.self]

after_call(pr, k, r, a) ==
  [obj |-> call_on(pr.obj, k, r),
   alone |-> [pr.alone EXCEPT ![k] = a.self],
   who |-> k,
   got |-> CallOutcome(r),
   want |-> CallOutcome(a),
   failed |-> IF r.res.tag = "Err" THEN pr.failed \cup {k} ELSE pr.failed,
   dead |-> r.res.tag = "Panic"]

InitPair ==
  /\ pak = new(10, <<>>)
  /\ env \in {e \in Envs : e.overflow_checks}
  /\ last = NoCall
  /\ first_ok = [o \in ValueOps |-> NoVal]
  /\ first_err = [st \in Stages |-> <<>>]
  /\ buff = <<>>
  /\ conv = NoConv
  /\ \E a \in SamplePaks, b \in SamplePaks :
       pair = [NoPair EXCEPT !.obj = <<new(a.varient, a.file), new(b.varient, b.file)>>,
                             !.alone = <<new(a.varient, a.file), new(b.varient, b.file)>>]
  /\ cli = NoCli
  /\ run = NoRun

\* a call of method op on archive k
CallOn(k, op, id) ==
  /\ ~pair.dead
  /\ pair' = after_call(pair, k, Apply(op, pair.obj[k], id, env),
                        Apply(op, pair.alone[k], id, env))
  /\ UNCHANGED <<pak, env, last, first_ok, first_err, buff, conv, cli, run>>

NextPair == \E k \in {1, 2}, op \in Ops, id \in PairIds : CallOn(k, op, id)

SpecPair == InitPair /\ [][NextPair]_vars

(***************************************************************************)
(* The command line tool (bin/gfp.rs): a file pattern, the glob over it,   *)
(* and one pass of the command's loop per pak the opener yields. Strings   *)
(* are sequences of characters. What the pattern matches is the file       *)
(* system's answer, an input: a PatternError, or a sequence of GlobResults *)
(* (ok: a path, or a GlobError; opens: File::open succeeds; file: its      *)
(* bytes). The output directory is taken to be writable.                   *)
(***************************************************************************)
ends_with(str, suffix) ==
  /\ Len(str) >= Len(suffix)
  /\ SubSeq(str, Len(str) - Len(suffix) + 1, Len(str)) = suffix

\* a prepare_file_pattern that puts a separator in every time
prepare_file_pattern_slash(file_pattern) ==
  IF ends_with(file_pattern, <<".", "p", "a", "k">>) THEN file_pattern
  ELSE file_pattern \o <<"/">> \o <<"*", "*", "/", "*", ".", "p", "a", "k">>

\* utils/cli.rs prepare_file_pattern
prepare_file_pattern(file_pattern) ==
  IF ends_with(file_pattern, <<".", "p", "a", "k">>) THEN file_pattern
  ELSE (IF ~(ends_with(file_pattern, <<"/">>) \/ ends_with(file_pattern, <<"\\">>))
          THEN file_pattern \o <<"/">>
        ELSE file_pattern)
         \o <<"*", "*", "/", "*", ".", "p", "a", "k">>

\* open_pak: Self::new(File::open(path)?) of the dialect
open_pak(g, varient) ==
  IF varient \notin {7, 10}
    THEN [res |-> Panic("Invalid varient"), pak |-> new(varient, <<>>)]
  ELSE IF ~g.opens
    THEN [res |-> io_error("NotFound", "No such file or directory"),
          pak |-> new(varient, <<>>)]
  ELSE [res |-> Ok, pak |-> new(varient, g.file)]

\* the closure open_paks_by_glob hands to glob_mapper: Some((path, pak)),
\* or None and a line on stderr
open_paks_mapper(g, varient) ==
  IF ~g.ok THEN [some |-> FALSE, log |-> "Error accessing entry"]
  ELSE IF Failed(open_pak(g, varient))
    THEN [some |-> FALSE, log |-> "Error opening pak file"]
  ELSE [some |-> TRUE, log |-> ""]

\* an opener that ends at the first path its mapper refuses
RECURSIVE GlobMapper_next_stopping(_, _, _)
GlobMapper_next_stopping(c, paths, log) ==
  IF paths = <<>> THEN [item |-> 0, paths |-> <<>>, log |-> log]
  ELSE IF open_paks_mapper(c.fs.matches[Head(paths)], c.varient).some
    THEN [item |-> Head(paths), paths |-> Tail(paths), log |-> log]
  ELSE [item |-> 0, paths |-> <<>>,
        log |-> Append(log, [item |-> Head(paths),
                             what |-> open_paks_mapper(c.fs.matches[Head(paths)],
                                                       c.varient).log])]

\* utils/glob_ext.rs GlobMapper::next: the next path the mapper accepts
\* (item, 0 for None), the paths left, and stderr
RECURSIVE GlobMapper_next(_, _, _)
GlobMapper_next(c, paths, log) ==
  IF paths = <<>> THEN [item |-> 0, paths |-> <<>>, log |-> log]
  ELSE IF open_paks_mapper(c.fs.matches[Head(paths)], c.varient).some
    THEN [item |-> Head(paths), paths |-> Tail(paths), log |-> log]
  ELSE GlobMapper_next(c, Tail(paths),
         Append(log, [item |-> Head(paths),
                      what |-> open_paks_mapper(c.fs.matches[Head(paths)],
                                                c.varient).log]))

\* println!(.., pak.encrypted()?); println!(.., pak.version()?)
info_version(e, env_) == IF Failed(e) THEN e.res ELSE version(e.self, env_).res

info_body(self, env_) == info_version(encrypted(self, env_), env_)

\* for entry_id in 0..pak.entries_count()? { pak.get_entry_path(entry_id)?;
\* .. } and, in unpack, pak.extract_entry_to_file(entry_id, ..)?
RECURSIVE for_each_entry(_, _, _, _, _)
RECURSIVE entry_extracted(_, _, _, _)
RECURSIVE entry_path_got(_, _, _, _, _)
for_each_entry(self, entry_id, count, unpack, env_) ==
  IF entry_id >= count THEN Ok
  ELSE entry_path_got(get_entry_path(self, entry_id, env_), entry_id, count,
                      unpack, env_)

entry_path_got(p, entry_id, count, unpack, env_) ==
  IF Failed(p) THEN p.res
  ELSE IF unpack
    THEN entry_extracted(extract_entry_to_file(p.self, entry_id, env_), entry_id,
                         count, env_)
  ELSE for_each_entry(p.self, entry_id + 1, count, unpack, env_)

entry_extracted(x, entry_id, count, env_) ==
  IF Failed(x) THEN x.res
  ELSE for_each_entry(x.self, entry_id + 1, count, TRUE, env_)

entries_body(n, unpack, env_) ==
  IF Failed(n) THEN n.res ELSE for_each_entry(n.self, 0, n.val.num, unpack, env_)

\* the loop body of the command on the pak the opener yielded
run_body(c, item, env_) ==
  IF item = 0 THEN Ok
  ELSE CASE c.cmd = "info" ->
              info_body(open_pak(c.fs.matches[item], c.varient).pak, env_)
         [] c.cmd = "unpack" ->
              entries_body(entries_count(open_pak(c.fs.matches[item], c.varient).pak,
                                         env_), TRUE, env_)
         [] OTHER ->
              entries_body(entries_count(open_pak(c.fs.matches[item], c.varient).pak,
                                         env_), FALSE, env_)

\* one pass of `for (pak_path, mut pak) in open_paks_by_glob(..)?`: the
\* loop ends when the opener has no more; a panic ends the process; an
\* error of the body leaves main through `?` in info and ls, and is caught
\* and printed by unpack and index
iteration(c, n, res) ==
  IF n.item = 0
    THEN [c EXCEPT !.paths = n.paths, !.log = n.log, !.stage = "done",
                   !.exit = "ok"]
  ELSE IF res.tag = "Panic"
    THEN [c EXCEPT !.paths = n.paths, !.log = n.log,
                   !.yielded = Append(@, n.item), !.stage = "done",
                   !.exit = "panic"]
  ELSE IF res.tag = "Err" /\ c.cmd \in {"info", "ls"}
    THEN [c EXCEPT !.paths = n.paths, !.log = n.log,
                   !.yielded = Append(@, n.item), !.stage = "done",
                   !.exit = "err"]
  ELSE IF res.tag = "Err"
    THEN [c EXCEPT !.paths = n.paths,
                   !.log = Append(n.log, [item |-> n.item, what |-> c.cmd]),
                   !.yielded = Append(@, n.item)]
  ELSE [c EXCEPT !.paths = n.paths, !.log = n.log, !.yielded = Append(@, n.item)]

for_pak(c, n, env_) == iteration(c, n, run_body(c, n.item, env_))

\* open_paks_by_glob(&file_pattern, varient)?: glob(pattern)? and the
\* GlobMapper over its Paths
open_paks_by_glob(c) ==
  IF ~c.fs.pattern_ok THEN [c EXCEPT !.stage = "done", !.exit = "err"]
  ELSE [c EXCEPT !.stage = "loop",
                 !.paths = [i \in 1 .. Len(c.fs.matches) |-> i]]

Cmds == {"info", "ls", "unpack", "index"}

\* what a path the pattern matches can be
GlobResults(varient) ==
  { [ok |-> FALSE, opens |-> FALSE, file |-> <<>>],
    [ok |-> TRUE, opens |-> FALSE, file |-> <<>>],
    [ok |-> TRUE, opens |-> TRUE, file |-> <<1, 2, 3>>] }
    \cup {[ok |-> TRUE, opens |-> TRUE, file |-> p.file] :
            p \in {q \in SamplePaks : q.varient = varient}}

CliPatterns == { <<".">>, <<"a", ".", "p", "a", "k">> }

InitCli ==
  /\ pak = new(10, <<>>)
  /\ env \in Envs
  /\ last = NoCall
  /\ first_ok = [o \in ValueOps |-> NoVal]
  /\ first_err = [st \in Stages |-> <<>>]
  /\ buff = <<>>
  /\ conv = NoConv
  /\ pair = NoPair
  /\ run = NoRun
  /\ \E cmd \in Cmds, varient \in {7, 10}, arg \in CliPatterns :
       \E fs \in {[pattern_ok |-> FALSE, matches |-> <<>>]}
                  \cup {[pattern_ok |-> TRUE, matches |-> m] :
                          m \in SeqsUpTo(GlobResults(varient), MaxPaks)} :
         cli = [NoCli EXCEPT !.cmd = cmd, !.varient = varient, !.arg = arg,
                             !.fs = fs, !.stage = "args"]

\* main up to the loop: info globs its argument as it is, the others
\* prepare it first
Start ==
  /\ cli.stage = "args"
  /\ cli' = open_paks_by_glob(
               [cli EXCEPT !.file_pattern =
                  IF cli.cmd = "info" THEN cli.arg
                  ELSE prepare_file_pattern(cli.arg)])
  /\ UNCHANGED <<pak, env, last, first_ok, first_err, buff, conv, pair, run>>

InfoPak ==
  /\ cli.stage = "loop"
  /\ cli.cmd = "info"
  /\ cli' = for_pak(cli, GlobMapper_next(cli, cli.paths, cli.log), env)
  /\ UNCHANGED <<pak, env, last, first_ok, first_err, buff, conv, pair, run>>

LsPak ==
  /\ cli.stage = "loop"
  /\ cli.cmd = "ls"
  /\ cli' = for_pak(cli, GlobMapper_next(cli, cli.paths, cli.log), env)
  /\ UNCHANGED <<pak, env, last, first_ok, first_err, buff, conv, pair, run>>

UnpackPak ==
  /\ cli.stage = "loop"
  /\ cli.cmd = "unpack"
  /\ cli' = for_pak(cli, GlobMapper_next(cli, cli.paths, cli.log), env)
  /\ UNCHANGED <<pak, env, last, first_ok, first_err, buff, conv, pair, run>>

IndexPak ==
  /\ cli.stage = "loop"
  /\ cli.cmd = "index"
  /\ cli' = for_pak(cli, GlobMapper_next(cli, cli.paths, cli.log), env)
  /\ UNCHANGED <<pak, env, last, first_ok, first_err, buff, conv, pair, run>>

NextCli == Start \/ InfoPak \/ LsPak \/ UnpackPak \/ IndexPak

SpecCli == InitCli /\ [][NextCli]_vars

\* prepare_file_pattern on its own: every pattern of at most MaxPattern
\* characters
PatternChars == {".", "p", "a", "k", "/", "\\", "*"}

InitPattern ==
  /\ pak = new(10, <<>>)
  /\ env = [overflow_checks |-> TRUE, target_os |-> "linux"]
  /\ last = NoCall
  /\ first_ok = [o \in ValueOps |-> NoVal]
  /\ first_err = [st \in Stages |-> <<>>]
  /\ buff = <<>>
  /\ conv = NoConv
  /\ pair = NoPair
  /\ run = NoRun
  /\ \E cmd \in Cmds, arg \in SeqsUpTo(PatternChars, MaxPattern) :
       cli = [NoCli EXCEPT !.cmd = cmd, !.varient = 10, !.arg = arg,
                           !.stage = "args"]

SpecPattern == InitPattern /\ [][Start]_vars

(***************************************************************************)
(* Properties of the archive object (under Spec).                          *)
(***************************************************************************)
\* a stage's loaded flag and the data the stage caches
StageLoaded(p, st) ==
  CASE st = "info" -> p.is_info_loaded
    [] st = "entries" -> p.is_entries_loaded
    [] st = "paths" -> p.is_entry_paths_loaded

StageData(p, st) ==
  CASE st = "info" -> <<p.info>>
    [] st = "entries" -> <<p.index_data, p.mount_point, p.index_offset, p.entries>>
    [] st = "paths" -> <<p.entry_paths>>

\* the calls that need a stage
Needs(st) ==
  CASE st = "info" -> {"encrypted", "version", "entries_count", "get_entry_path",
                       "extract_entry_to_file"}
    [] st = "entries" -> {"entries_count", "get_entry_path", "extract_entry_to_file"}
    [] st = "paths" -> {"get_entry_path"}

IsInvalidData(res) == res.tag = "Err" /\ res.kind = "InvalidData"
\* the cursor's error for a read past the end of the buffer
IsReadPastEnd(res) == res.tag = "Err" /\ res.kind = "Io" /\ res.io = "InvalidData"

\* C1: once a stage has loaded, no later call runs its loader again or
\* changes the data it caches (trailer fields; index buffer, mount point,
\* index_offset, entry table; entry_paths), and once encrypted(), version()
\* or entries_count() has succeeded, every later call of it succeeds with
\* the value of the first successful call.
C1_Memoized ==
  [][ /\ \A st \in Stages :
           StageLoaded(pak, st) =>
             /\ st \notin last'.did
             /\ StageData(pak', st) = StageData(pak, st)
      /\ \A o \in ValueOps :
           (first_ok[o] # NoVal /\ last'.op = o) =>
             (last'.res = Ok /\ last'.val = first_ok[o])
    ]_vars

\* entries_count() called again after get_entry_path loaded the paths of a
\* two-entry archive: no loader runs, the value is the first one
C1_Witness ==
  /\ last.op = "entries_count"
  /\ last.did = {}
  /\ pak.is_entry_paths_loaded
  /\ last.val = NumVal(2)
  /\ first_ok["entries_count"] = NumVal(2)
  /\ first_ok["version"] # NoVal

\* C2: the flags are ordered in every state (paths loaded implies entries
\* loaded implies trailer loaded), all are false right after new, and no
\* call, successful or failing, turns a flag from true to false.
C2_ForwardOnly ==
  /\ [](/\ pak.is_entry_paths_loaded => pak.is_entries_loaded
        /\ pak.is_entries_loaded => pak.is_info_loaded
        /\ last.op = "new" => \A st \in Stages : ~StageLoaded(pak, st))
  /\ [][\A st \in Stages : StageLoaded(pak, st) => StageLoaded(pak', st)]_vars

\* a failing call on an archive whose three stages are loaded
C2_Witness ==
  /\ pak.is_entry_paths_loaded
  /\ pak.is_entries_loaded
  /\ pak.is_info_loaded
  /\ last.res.tag = "Err"
  /\ last.did = {}

\* C3: a call that returns a stage loader's error leaves that stage not
\* loaded and that stage's data exactly as it was before the call.
C3_FailedLoadChangesNothing ==
  [][ (last'.res.tag = "Err" /\ last'.at \in Stages) =>
        /\ ~StageLoaded(pak', last'.at)
        /\ StageData(pak', last'.at) = StageData(pak, last'.at)
    ]_vars

\* C4: once a stage load has failed, the stage never appears loaded, and
\* every call that needs the stage returns that same error (kind and
\* message) and no data.
C4_FailsAgain ==
  \A st \in Stages :
    first_err[st] # <<>> =>
      /\ ~StageLoaded(pak, st)
      /\ last.op \in Needs(st) =>
           /\ last.res = first_err[st][1]
           /\ last.at = st
           /\ last.val = NoVal
           /\ last.out = <<>>

\* get_entry_path failing in the paths stage, which had failed before
C4_Witness ==
  /\ last.again
  /\ last.op = "get_entry_path"
  /\ last.at = "paths"
  /\ last.res = first_err["paths"][1]
  /\ first_ok["entries_count"] # NoVal

\* C5: on an archive whose entries (and, in dialect 10, paths) are loaded,
\* get_entry_path(id) with id below the entry count succeeds and returns a
\* non-empty string.
C5_PathsNonEmpty ==
  ( /\ last.op = "get_entry_path"
    /\ pak.is_entries_loaded
    /\ pak.varient = 10 => pak.is_entry_paths_loaded
    /\ last.id < Len(pak.entries) ) =>
      /\ last.res = Ok
      /\ last.val.is = "string"
      /\ last.val.str # <<>>

\* what the trailer of a file says: the deobfuscated index_offset, the
\* position seek(End(-index_offset)) gives less 45 (dialect 10), and the
\* deobfuscated index_size field (dialect 7)
TrailerOffset(file) ==
  i64_from_le_bytes(xor_key(SubSeq(file, Len(file) - 7, Len(file)), OFFSET_XOR_KEY))

DerivedIndexSize(file) == (Len(file) - TrailerOffset(file)) - PAK_INFO_SIZE

TrailerIndexSize(file) ==
  u64_from_le_bytes(xor_key(SubSeq(file, Len(file) - 15, Len(file) - 8), SIZE_XOR_KEY))

\* C6: in dialect 10, a derived index size above 52,428,800 makes the call
\* fail with InvalidData in the trailer stage, with no index byte read, no
\* entry parsed and both flags false; a derived size of exactly 52,428,800
\* passes the trailer stage.
C6_IndexSizeLimit ==
  (pak.varient = 10 /\ last.op # "new" /\ Len(pak.file) >= PAK_INFO_SIZE) =>
    /\ DerivedIndexSize(pak.file) > MAX_INDEX_SIZE =>
         /\ IsInvalidData(last.res)
         /\ last.at = "info"
         /\ last.did = {"info"}
         /\ ~pak.is_info_loaded
         /\ ~pak.is_entries_loaded
         /\ pak.index_data = Buf(<<>>)
         /\ pak.entries = <<>>
    /\ DerivedIndexSize(pak.file) = MAX_INDEX_SIZE =>
         /\ pak.is_info_loaded
         /\ pak.info.index_size = MAX_INDEX_SIZE
         /\ last.at # "info"

\* a call on a dialect 10 archive whose derived index size is 52,428,801
C6_Witness ==
  /\ pak.varient = 10
  /\ Len(pak.file) >= PAK_INFO_SIZE
  /\ DerivedIndexSize(pak.file) = MAX_INDEX_SIZE + 1
  /\ last.op = "entries_count"
  /\ IsInvalidData(last.res)

\* C7: in both dialects a loaded trailer has index_size <= 52,428,800, and
\* a trailer that says more makes every call fail with no entry read.
C7_IndexSizeBounded ==
  /\ pak.is_info_loaded => pak.info.index_size <= MAX_INDEX_SIZE
  /\ ( /\ last.op # "new"
       /\ Len(pak.file) >= PAK_INFO_SIZE
       /\ (IF pak.varient = 7 THEN TrailerIndexSize(pak.file)
           ELSE DerivedIndexSize(pak.file)) > MAX_INDEX_SIZE ) =>
         /\ last.res.tag = "Err"
         /\ pak.entries = <<>>
         /\ ~pak.is_entries_loaded

\* the dialect 10 files whose directory table holds a file record with a
\* negative entry_id
NegativeIdFiles ==
  {FileBytes(a) : a \in {b \in BadPaths :
      \E d \in 1 .. Len(b.paths.dirs) :
        \E f \in 1 .. Len(b.paths.dirs[d].files) : b.paths.dirs[d].files[f].id < 0}}

\* C8: in dialect 10, when a file record of the directory table carries a
\* negative entry_id, get_entry_path fails with InvalidData from the paths
\* stage, returns no path, and is_entry_paths_loaded stays false.
C8_NegativeEntryId ==
  (pak.varient = 10 /\ pak.file \in NegativeIdFiles) =>
    /\ ~pak.is_entry_paths_loaded
    /\ last.op = "get_entry_path" =>
         /\ IsInvalidData(last.res)
         /\ last.at = "paths"
         /\ last.val = NoVal

\* C9: extracting a loaded entry whose compression_method is neither 0 nor
\* 1 fails with InvalidData and writes nothing, whatever its block count.
C9_UnknownMethod ==
  ( /\ last.op = "extract_entry_to_file"
    /\ pak.is_entries_loaded
    /\ last.id < Len(pak.entries)
    /\ pak.entries[last.id + 1].compression_method \notin {0, 1} ) =>
      /\ IsInvalidData(last.res)
      /\ last.out = <<>>

(***************************************************************************)
(* Properties of the converter (under SpecUtf).                            *)
(***************************************************************************)
\* the UTF-8 encoding of one 16-bit code unit taken on its own
Utf8OfUnit(u) ==
  IF u <= 127 THEN <<u>>
  ELSE IF u <= 2047 THEN <<192 + (u \div 64), 128 + (u % 64)>>
  ELSE <<224 + (u \div 4096), 128 + ((u \div 64) % 64), 128 + (u % 64)>>

RECURSIVE Utf8OfUnits(_)
Utf8OfUnits(b) ==
  IF Len(b) < 2 THEN <<>>
  ELSE Utf8OfUnit(b[1] + 256 * b[2]) \o Utf8OfUnits(SubSeq(b, 3, Len(b)))

\* C10: on every buffer of even length utf16le_to_utf8_arr_inplace returns
\* Ok(n), and the first n bytes of the buffer are the UTF-8 encodings of
\* the code units of the original input, one after the other.
C10_EvenLengthConverts ==
  (conv.done /\ conv.op = "arr" /\ Len(conv.orig) % 2 = 0) =>
    /\ conv.res = Ok
    /\ conv.n = Len(Utf8OfUnits(conv.orig))
    /\ SubSeq(buff, 1, conv.n) = Utf8OfUnits(conv.orig)

\* C11: on every buffer of odd length the conversion fails, and the error
\* is the incomplete sequence one and no other (utf16le_to_utf8_inplace
\* hands the same message on as its panic).
C11_OddLengthIncomplete ==
  (conv.done /\ Len(conv.orig) % 2 = 1) =>
    /\ conv.res.tag # "Ok"
    /\ conv.res.msg = "Incomplete UTF-16 sequence"

(***************************************************************************)
(* Properties of the accessors and of extraction (under Spec).             *)
(***************************************************************************)
\* what a caller sees of a call: the result and the bytes in the sink
Outcome(r) == <<r.res, r.out>>

\* C12: extract_entry_to_file on an archive whose entries are loaded
\* changes nothing of the object, whether it succeeds or fails, and after
\* a failed extraction every entry extracts with the result it would have
\* had without the failed call.
C12_ExtractionLeavesArchive ==
  [][ last'.op = "extract_entry_to_file" =>
        /\ pak.is_entries_loaded => pak' = pak
        /\ (last'.res.tag = "Err" /\ last'.at = "call") =>
             \A j \in Ids :
               j < Len(pak'.entries) =>
                 Outcome(extract_entry_to_file(pak', j, env))
                   = Outcome(extract_entry_to_file(pak, j, env))
    ]_vars

\* a failed extraction on a loaded archive of two entries whose other entry
\* extracts
C12_Witness ==
  /\ last.op = "extract_entry_to_file"
  /\ last.res.tag = "Err"
  /\ last.at = "call"
  /\ last.did = {}
  /\ Len(pak.entries) = 2
  /\ last.id < 2
  /\ LET r == extract_entry_to_file(pak, 1 - last.id, env) IN
       r.res = Ok /\ r.out # <<>>

\* C13: encrypted() and version() run the trailer loader only and leave
\* the entries stage as it was; entries_count() and extract_entry_to_file()
\* run no paths loader and leave is_entry_paths_loaded and entry_paths as
\* they were; the paths loader runs in get_entry_path() of dialect 10 only;
\* and a call that succeeds has the stage it needs loaded.
C13_MinimalStage ==
  [][ /\ last'.op \in {"encrypted", "version"} =>
           /\ last'.did \subseteq {"info"}
           /\ pak'.is_entries_loaded = pak.is_entries_loaded
           /\ StageData(pak', "entries") = StageData(pak, "entries")
           /\ last'.res = Ok => pak'.is_info_loaded
      /\ last'.op \in {"encrypted", "version", "entries_count",
                        "extract_entry_to_file"} =>
           /\ last'.did \subseteq {"info", "entries"}
           /\ pak'.is_entry_paths_loaded = pak.is_entry_paths_loaded
           /\ pak'.entry_paths = pak.entry_paths
      /\ last'.op \in {"entries_count", "extract_entry_to_file"} =>
           (last'.res = Ok => pak'.is_info_loaded /\ pak'.is_entries_loaded)
      /\ "paths" \in last'.did => (last'.op = "get_entry_path" /\ pak.varient = 10)
    ]_vars

\* a first extraction on a dialect 10 archive: trailer and entries loaded,
\* paths not
C13_Witness ==
  /\ last.op = "extract_entry_to_file"
  /\ pak.varient = 10
  /\ last.res = Ok
  /\ last.did = {"info", "entries"}
  /\ pak.is_entries_loaded
  /\ ~pak.is_entry_paths_loaded
  /\ pak.entry_paths = <<>>

\* the entry the last extraction was about
Extracting ==
  /\ last.op = "extract_entry_to_file"
  /\ pak.is_entries_loaded
  /\ last.id < Len(pak.entries)

TheEntry == pak.entries[last.id + 1]

\* what a block should give: the file bytes [start, end), XORed with the
\* key when the entry is encrypted, inflated
BlockWhole(file, block) == block.start <= block.end /\ block.end <= Len(file)

BlockShort(file, block) == block.start <= block.end /\ block.end > Len(file)

Available(file, block) ==
  IF block.start >= Len(file) THEN 0 ELSE Len(file) - block.start

Inflated(file, e, block) ==
  zlib_decompress(
    IF e.encrypted # 0
      THEN xor_each_byte(SubSeq(file, block.start + 1, block.end), DECRYPT_KEY)
    ELSE SubSeq(file, block.start + 1, block.end),
    e.compressed_block_size)

BlockGood(file, e, block) ==
  /\ BlockWhole(file, block)
  /\ e.compression_method = 1
  /\ Inflated(file, e, block).some

\* how many blocks extract before the first that cannot, from block b on
RECURSIVE GoodPrefix(_, _, _)
GoodPrefix(file, e, b) ==
  IF b > Len(e.blocks) \/ ~BlockGood(file, e, e.blocks[b]) THEN b - 1
  ELSE GoodPrefix(file, e, b + 1)

RECURSIVE InflatedUpTo(_, _, _)
InflatedUpTo(file, e, k) ==
  IF k = 0 THEN <<>>
  ELSE InflatedUpTo(file, e, k - 1) \o Inflated(file, e, e.blocks[k]).data

\* C18: in chunked mode the sink holds the inflated blocks in table order:
\* all of them when the call succeeds, and exactly those before the first
\* block that fails when it does not.
C18_BlocksInOrder ==
  (Extracting /\ TheEntry.num_of_blocks > 0) =>
    /\ last.out = InflatedUpTo(pak.file, TheEntry,
                               GoodPrefix(pak.file, TheEntry, 1))
    /\ (last.res = Ok) <=>
         (GoodPrefix(pak.file, TheEntry, 1) = Len(TheEntry.blocks))

\* an extraction of two blocks that fails at the second: the sink holds
\* the first block's bytes
C18_Witness ==
  /\ Extracting
  /\ Len(TheEntry.blocks) = 2
  /\ GoodPrefix(pak.file, TheEntry, 1) = 1
  /\ last.res.tag = "Err"
  /\ last.out = <<7, 8>>

\* C19: in chunked mode, when the file holds fewer than block.size bytes
\* at block.start, the call returns InvalidData with the block offset and
\* the read and expected byte counts.
C19_ShortReadInvalidData ==
  ( /\ Extracting
    /\ TheEntry.num_of_blocks > 0
    /\ GoodPrefix(pak.file, TheEntry, 1) < Len(TheEntry.blocks)
    /\ BlockShort(pak.file,
                  TheEntry.blocks[GoodPrefix(pak.file, TheEntry, 1) + 1]) ) =>
      LET block == TheEntry.blocks[GoodPrefix(pak.file, TheEntry, 1) + 1] IN
        /\ IsInvalidData(last.res)
        /\ last.res.msg = "Failed to read compressed chunk"
        /\ last.res.args = <<block.start, Available(pak.file, block),
                             block.end - block.start>>

\* C20: in raw mode a successful call has put into the sink exactly the
\* file_size file bytes from file_offset + 74 on, each XORed with 0x79 iff
\* the entry is encrypted, and an entry of file_size 0 succeeds with
\* nothing written.
C20_RawCopy ==
  (Extracting /\ TheEntry.num_of_blocks = 0) =>
    LET from == TheEntry.file_offset + RAW_HEADER_SIZE
        bytes == SubSeq(pak.file, from + 1, from + TheEntry.file_size)
    IN  /\ TheEntry.file_size = 0 => (last.res = Ok /\ last.out = <<>>)
        /\ last.res = Ok =>
             /\ from + TheEntry.file_size <= Len(pak.file)
             /\ Len(last.out) = TheEntry.file_size
             /\ last.out = IF TheEntry.encrypted # 0
                             THEN xor_each_byte(bytes, DECRYPT_KEY)
                           ELSE bytes

Accepted(c, paths) ==
  SelectSeq(paths, LAMBDA i : open_paks_mapper(c.fs.matches[i], c.varient).some)

AllPaths(c) == [i \in 1 .. Len(c.fs.matches) |-> i]

\* C15: in every batch command (info, ls, unpack, index) a failure to open,
\* parse or extract one pak of the matched sequence is logged and the batch
\* goes on: when the command is over, every pak the opener could open has
\* been handed to the loop body, and every pak that failed has a line on
\* stderr.
C15_BatchContinues ==
  (cli.stage = "done" /\ cli.fs.pattern_ok) =>
    /\ cli.yielded = Accepted(cli, AllPaths(cli))
    /\ \A i \in 1 .. Len(cli.fs.matches) :
         (~open_paks_mapper(cli.fs.matches[i], cli.varient).some
            \/ run_body(cli, i, env) # Ok)
           => \E k \in 1 .. Len(cli.log) : cli.log[k].item = i

\* C16: the batch opener yields exactly the matched paths for which the
\* mapper returns Some, in glob order, and skips the rest: what it has
\* yielded so far, followed by the accepted ones among the paths it has not
\* looked at yet, is the accepted ones among all matched paths; a loop that
\* ran to its end has seen them all; and a pattern that matches nothing
\* gives an empty sequence and a normal exit, not an error.
C16_OpenerYieldsAccepted ==
  (cli.stage \in {"loop", "done"} /\ cli.fs.pattern_ok) =>
    /\ cli.yielded \o Accepted(cli, cli.paths) = Accepted(cli, AllPaths(cli))
    /\ (cli.exit = "ok" => cli.yielded = Accepted(cli, AllPaths(cli)))
    /\ ((cli.stage = "done" /\ cli.fs.matches = <<>>)
          => cli.exit = "ok" /\ cli.yielded = <<>> /\ cli.log = <<>>)

C16_Witness ==
  /\ cli.stage = "done"
  /\ cli.exit = "ok"
  /\ Len(cli.fs.matches) = 2
  /\ ~cli.fs.matches[1].opens
  /\ cli.yielded = <<2>>
  /\ Len(cli.log) = 1

\* C17: prepare_file_pattern returns its input unchanged when it ends with
\* ".pak"; otherwise it returns the input followed by "**/*.pak", with one
\* separator put in between unless the input already ends with '/' or '\';
\* so the result always ends with ".pak" and preparing it again changes
\* nothing.
C17_PreparedPattern ==
  (cli.stage # "args" /\ cli.cmd # "info") =>
    /\ ends_with(cli.arg, <<".", "p", "a", "k">>) => cli.file_pattern = cli.arg
    /\ (/\ ~ends_with(cli.arg, <<".", "p", "a", "k">>)
        /\ cli.arg # <<>>
        /\ cli.arg[Len(cli.arg)] \in {"/", "\\"})
         => cli.file_pattern = cli.arg \o <<"*", "*", "/", "*", ".", "p", "a", "k">>
    /\ (/\ ~ends_with(cli.arg, <<".", "p", "a", "k">>)
        /\ (cli.arg = <<>> \/ cli.arg[Len(cli.arg)] \notin {"/", "\\"}))
         => cli.file_pattern =
              cli.arg \o <<"/", "*", "*", "/", "*", ".", "p", "a", "k">>
    /\ ends_with(cli.file_pattern, <<".", "p", "a", "k">>)
    /\ prepare_file_pattern(cli.file_pattern) = cli.file_pattern

C17_Witness ==
  /\ cli.stage = "loop"
  /\ cli.cmd = "ls"
  /\ cli.arg = <<"a", "\\">>
  /\ cli.file_pattern = <<"a", "\\", "*", "*", "/", "*", ".", "p", "a", "k">>

\* the index block was read whole and ends before the mount-point length,
\* the mount point (whose length field is below 9 or runs past the end) or
\* the entry count has been read
ShortHeader(p) ==
  /\ p.is_info_loaded
  /\ BufLen(p.index_data) = p.info.index_size
  /\ \/ BufLen(p.index_data) < 4
     \/ u32_from_le_bytes(BufSlice(p.index_data, 0, 4)) < 9
     \/ u32_from_le_bytes(BufSlice(p.index_data, 0, 4)) + 8 > BufLen(p.index_data)

\* C21: when the index buffer is too short for a field read while the
\* entries are parsed (the 4-byte mount-point length, a mount-point length
\* below 9, the mount-point bytes, the 4-byte entry count, or a field of an
\* entry), load_entries returns an InvalidData error and never panics.
C21_ShortIndexInvalidData ==
  /\ (last.at = "entries" /\ ShortHeader(pak))
       => (IsInvalidData(last.res) \/ IsReadPastEnd(last.res))
  /\ (last.at = "entries" /\ last.res.tag = "Panic")
       => last.res.msg \in {"capacity overflow", "memory allocation failed"}

\* C22: every entry of a loaded entry table has an empty block list if and
\* only if its compression_method is 0, and as many blocks as its
\* num_of_blocks field says.
C22_BlocksIffCompressed ==
  pak.is_entries_loaded =>
    \A i \in 1 .. Len(pak.entries) :
      /\ (pak.entries[i].blocks = <<>>) <=> (pak.entries[i].compression_method = 0)
      /\ Len(pak.entries[i].blocks) = pak.entries[i].num_of_blocks

\* the archive a file was written from
ArchiveOf ==
  [k \in {<<a.varient, FileBytes(a)>> : a \in Archives} |->
     CHOOSE a \in Archives : <<a.varient, FileBytes(a)>> = k]

\* a C string without its terminator, and the text of a stored name: UTF-8
\* when its size is positive, else UTF-16LE code units
CStr(bytes) == SubSeq(bytes, 1, Len(bytes) - 1)

NameStr(name) ==
  IF name.size > 0 THEN CStr(name.bytes)
  ELSE Utf8OfUnits(SubSeq(name.bytes, 1, Len(name.bytes) - 2))

\* where the entry table of archive a ends in its index block
EntriesEnd(a) ==
  4 + 9 + Len(a.mount) + 4
    + Len(Flat([i \in 1 .. Len(a.entries) |-> EntryBytes(a.entries[i], a.varient)]))

\* the file record of archive a that names id is record f of directory d,
\* and no later record names it
NamesId(a, d, f, id) ==
  /\ a.paths.dirs[d].files[f].id = id
  /\ \A d2 \in 1 .. Len(a.paths.dirs) : \A f2 \in 1 .. Len(a.paths.dirs[d2].files) :
       (d2 > d \/ (d2 = d /\ f2 > f)) => a.paths.dirs[d2].files[f2].id # id

PathsAsStored(a, id, val, index_offset) ==
  IF a.varient = 10
    THEN /\ index_offset = EntriesEnd(a)
         /\ \A d \in 1 .. Len(a.paths.dirs) : \A f \in 1 .. Len(a.paths.dirs[d].files) :
              NamesId(a, d, f, id) =>
                val = StrVal(CStr(a.mount) \o CStr(a.paths.dirs[d].name)
                               \o NameStr(a.paths.dirs[d].files[f].name))
  ELSE val = StrVal(NameStr(a.entries[id + 1].name))

\* C23: in dialect 10, after a successful paths load, get_entry_path(id) is
\* mount_point, dir_name and entry_name, one after the other with nothing
\* between them, of the file record of the directory table that names id,
\* and the directory table was parsed from the index offset where the
\* entries ended; in dialect 7 it is the entry's inline path with no mount
\* point in front.
C23_PathsFollowDialect ==
  (last.op = "get_entry_path" /\ last.res = Ok) =>
    PathsAsStored(ArchiveOf[<<pak.varient, pak.file>>], last.id, last.val,
                  pak.index_offset)

C23_Witness ==
  /\ pak.varient = 10
  /\ last.op = "get_entry_path"
  /\ last.res = Ok
  /\ last.id = 1
  /\ pak.is_entry_paths_loaded
  /\ last.val = StrVal(<<109, 47, 100, 47, 65>>)

\* C24: while the directory table of a dialect 10 archive is parsed, every
\* entry_id under which a path is stored is an index of entry_paths, and
\* after a successful paths load entry_paths is as long as the entry table:
\* neither the loader nor get_entry_path with an id below the entry count
\* indexes entry_paths out of range.
C24_EntryIdInRange ==
  /\ (pak.varient = 10 /\ pak.is_entry_paths_loaded)
       => Len(pak.entry_paths) = Len(pak.entries)
  /\ ( /\ pak.varient = 10
       /\ last.op = "get_entry_path"
       /\ pak.is_entries_loaded
       /\ last.id < Len(pak.entries) )
       => last.res # Panic("index out of bounds")

StageFlags(p) == <<p.is_info_loaded, p.is_entries_loaded, p.is_entry_paths_loaded>>

\* C25: extract_entry_to_file and get_entry_path with an entry_id that is
\* not below entries_count() never return Ok and never write a byte, and
\* when the entry table was loaded before the call they leave it and the
\* stage flags as they were.
C25_IdOutOfRange ==
  [][ ( /\ last'.op \in {"extract_entry_to_file", "get_entry_path"}
        /\ pak'.is_entries_loaded
        /\ last'.id >= Len(pak'.entries) ) =>
          /\ last'.res # Ok
          /\ last'.out = <<>>
          /\ pak.is_entries_loaded =>
               /\ pak'.entries = pak.entries
               /\ StageFlags(pak') = StageFlags(pak)
    ]_vars

(***************************************************************************)
(* The loops of the loaders and of extraction, one iteration per step:     *)
(* the entry loop of load_entries and the block loop inside it, the        *)
(* directory loop of load_entry_paths and the file-record loop inside it,  *)
(* the block loop and the raw loop of extract_entry_to_file. A call starts *)
(* from "idle" and returns to it; a panic ends the process. The loaders    *)
(* that a call runs first are calls of their own here: load_entry_paths    *)
(* and extract_entry_to_file start on an archive whose entries are loaded, *)
(* where their own call of load_entries returns at once.                   *)
(***************************************************************************)
\* one more pass of a loop (its last test of the condition included)
pass(r) == [r EXCEPT !.steps = @ + 1]

\* the call returns res
returned(r, res) ==
  [r EXCEPT !.res = res, !.from = r.at,
            !.at = IF res.tag = "Panic" THEN "dead" ELSE "idle"]

\* a loader returns what its threaded record holds
loaded(r, q) == returned([r EXCEPT !.p = q], q.res)

\* load_entries up to its loop (gfp_v10.rs 128-171)
entries_begun(r, q) ==
  IF Failed(q) THEN loaded(r, q)
  ELSE [r EXCEPT !.p = q, !.entry_id = 0, !.at = "entries"]

load_entries_begin(r, i, env_) ==
  IF Failed(i) THEN returned([r EXCEPT !.p.self = i.self], i.res)
  ELSE entries_begun(r, read_entry_count(
                          read_mount_point_length(read_index_data(i.self, env_), env_)))

\* `?` inside the entry loop: the entry was being filled in place
entry_failed(r, st) ==
  returned([r EXCEPT !.p.res = st.res, !.p.self.entries[r.entry_id + 1] = st.entry],
           st.res)

\* an entry up to its block list (gfp_v10.rs 175-183)
read_entry_head(st) ==
  read_num_of_blocks(
    read_field(read_field(read_field(read_field(read_field(read_field(st,
      20, "bytes", "file_hash"),
      8, "u64", "file_offset"),
      8, "u64", "file_size"),
      4, "u32", "compression_method"),
      8, "u64", "compressed_length"),
      21, "bytes", "dummy"))

entry_head_read(r, st) ==
  IF Failed(st) THEN entry_failed(r, st)
  ELSE [r EXCEPT !.p.cur = st.cur, !.entry = st.entry,
                 !.left = st.entry.num_of_blocks, !.at = "blocks"]

\* one pass of `for _ in 0..entry.num_of_blocks`
block_read(r, st) ==
  IF Failed(st) THEN entry_failed(r, st)
  ELSE [r EXCEPT !.p.cur = st.cur, !.entry = st.entry, !.left = @ - 1]

\* the entry's last two fields, and on to the next entry
entry_tail_read(r, st) ==
  IF Failed(st) THEN entry_failed(r, st)
  ELSE [r EXCEPT !.p.cur = st.cur, !.p.self.entries[r.entry_id + 1] = st.entry,
                 !.entry_id = @ + 1, !.at = "entries"]

\* load_entry_paths up to its loop (gfp_v10.rs 212-217)
paths_counts_read(r, ec, dc) ==
  IF Failed(dc) THEN returned(r, dc.res)
  ELSE IF u64_from_le_bytes(ec.data) >= HUGE
    THEN returned(r, Panic("memory allocation failed"))
  ELSE [r EXCEPT !.p.cur = dc.cur,
                 !.p.self.entry_paths =
                    [i \in 1 .. u64_from_le_bytes(ec.data) |-> <<>>],
                 !.dirs = u64_from_le_bytes(dc.data), !.at = "dirs"]

load_entry_paths_begin(r, ec) ==
  IF Failed(ec) THEN returned(r, ec.res)
  ELSE paths_counts_read(r, ec, read(ec.cur, 8))

\* a directory up to its file records (gfp_v10.rs 220-225)
dir_files_read(r, dir_name, n) ==
  IF Failed(dir_name) THEN returned(r, dir_name.res)
  ELSE IF Failed(n) THEN returned(r, n.res)
  ELSE [r EXCEPT !.p.cur = n.cur, !.dir_name = dir_name.str,
                 !.files = u64_from_le_bytes(n.data), !.at = "files"]

dir_name_read(r, d) ==
  IF Failed(d) THEN returned(r, d.res)
  ELSE dir_files_read(r, cstring_into_string(d.data), read(d.cur, 8))

dir_len_read(r, l) ==
  IF Failed(l) THEN returned(r, l.res)
  ELSE dir_name_read(r, read_dyn(l.cur, u32_from_le_bytes(l.data)))

\* one pass of `for _ in 0..dir_files`
file_read(r, q) ==
  IF Failed(q) THEN loaded(r, q)
  ELSE [r EXCEPT !.p = q, !.files = IF @ >= HUGE THEN HUGE ELSE @ - 1]

\* extract_entry_to_file up to its loops (gfp_v10.rs 293-297, 328-330)
extract_begin(r, entry_id) ==
  IF entry_id >= Len(r.p.self.entries)
    THEN returned([r EXCEPT !.x = [res |-> Ok, out |-> <<>>]],
                  Panic("index out of bounds"))
  ELSE [r EXCEPT !.entry = r.p.self.entries[entry_id + 1],
                 !.x = [res |-> Ok, out |-> <<>>],
                 !.b = 1,
                 !.file_offset = r.p.self.entries[entry_id + 1].file_offset
                                   + RAW_HEADER_SIZE,
                 !.file_size = r.p.self.entries[entry_id + 1].file_size,
                 !.at = IF r.p.self.entries[entry_id + 1].num_of_blocks > 0
                          THEN "xblocks" ELSE "raw"]

\* one pass of `for block in &entry.blocks`
block_extracted(r, x) ==
  IF Failed(x) THEN returned([r EXCEPT !.x = x], x.res)
  ELSE [r EXCEPT !.x = x, !.b = @ + 1]

\* a raw loop that forgets to count the chunk it wrote
raw_chunk_uncounted(r, x) ==
  IF Failed(x) THEN returned([r EXCEPT !.x = x], x.res)
  ELSE [r EXCEPT !.x = x,
                 !.file_offset = @ + min(r.file_size, CHUNK_SIZE)]

\* one pass of `while file_size > 0`
raw_chunk_written(r, x) ==
  IF Failed(x) THEN returned([r EXCEPT !.x = x], x.res)
  ELSE [r EXCEPT !.x = x,
                 !.file_size = @ - min(r.file_size, CHUNK_SIZE),
                 !.file_offset = @ + min(r.file_size, CHUNK_SIZE)]

\* the file, with the bytes from position pos on replaced
Patch(file, pos, bytes) ==
  [i \in 1 .. Len(file) |->
     IF i > pos /\ i <= pos + Len(bytes) THEN bytes[i - pos] ELSE file[i]]

\* where the entry table of an archive with the mount point Mount starts
\* in the file
EntryTableAt == Len(Payload) + 4 + 9 + Len(Mount) + 4

\* where the directory table of a dialect 10 archive with this one entry
\* starts in the file
PathTableAt(e) == EntryTableAt + Len(EntryBytes(e, 10))

\* sound archives, and archives whose counts and sizes say more than the
\* file holds: entry_count 5 and 2^31 - 1, num_of_blocks 2^31 - 1,
\* dir_count and dir_files 2^64 - 1, a raw file_size of CHUNK_SIZE + 1
LoopPaks ==
  {[varient |-> a.varient, file |-> FileBytes(a)] :
     a \in {Base(7, 0, 2, 0), Base(10, 0, 2, 0), Base(10, 0, 2, 5), Base(7, 0, 1, 10),
             Base(7, 0, 1, 3), [Base(10, 0, 1, 0) EXCEPT !.keep = 127]}}
    \cup {[varient |-> 10, file |-> f] :
            f \in { Patch(FileBytes(Base(10, 0, 1, 1)), EntryTableAt - 4,
                          <<5, 0, 0, 0>>),
                    Patch(FileBytes(Base(10, 0, 1, 1)), EntryTableAt - 4,
                          <<255, 255, 255, 127>>),
                    Patch(FileBytes(Base(10, 0, 1, 1)), EntryTableAt + 69,
                          <<255, 255, 255, 127>>),
                    Patch(FileBytes(Base(10, 0, 1, 1)),
                          PathTableAt(EntryKinds[2]) + 8,
                          <<255, 255, 255, 255, 255, 255, 255, 255>>),
                    Patch(FileBytes(Base(10, 0, 1, 1)),
                          PathTableAt(EntryKinds[2]) + 16 + 4 + Len(DirName),
                          <<255, 255, 255, 255, 255, 255, 255, 255>>),
                    Patch(FileBytes(Base(10, 0, 1, 0)), EntryTableAt + 28,
                          <<1, 0, 1, 0, 0, 0, 0, 0>>) }}

InitLoops ==
  /\ pak = new(10, <<>>)
  /\ env \in Envs
  /\ last = NoCall
  /\ first_ok = [o \in ValueOps |-> NoVal]
  /\ first_err = [st \in Stages |-> <<>>]
  /\ buff = <<>>
  /\ conv = NoConv
  /\ pair = NoPair
  /\ cli = NoCli
  /\ \E f \in LoopPaks :
       run = [NoRun EXCEPT !.at = "idle", !.p = Loading(new(f.varient, f.file))]

\* load_entries is called on an archive whose entries are not loaded
LoadEntries ==
  /\ run.at = "idle"
  /\ ~run.p.self.is_entries_loaded
  /\ run' = load_entries_begin([run EXCEPT !.call = "load_entries", !.id = 0,
                                           !.steps = 0],
                               load_pak_info(run.p.self, env), env)
  /\ UNCHANGED <<pak, env, last, first_ok, first_err, buff, conv, pair, cli>>

\* for entry_id in 0..entry_count as usize
EntryLoop ==
  /\ run.at = "entries"
  /\ run.steps < MaxSteps
  /\ run' = IF run.entry_id < Len(run.p.self.entries)
              THEN entry_head_read(pass(run),
                     read_entry_head(
                       IF run.p.self.varient = 7
                         THEN read_entry_path_v7(
                                [res |-> Ok, cur |-> run.p.cur,
                                 entry |-> run.p.self.entries[run.entry_id + 1]], env)
                       ELSE [res |-> Ok, cur |-> run.p.cur,
                             entry |-> run.p.self.entries[run.entry_id + 1]]))
            ELSE loaded(pass(run), finish_entries(run.p))
  /\ UNCHANGED <<pak, env, last, first_ok, first_err, buff, conv, pair, cli>>

\* for _ in 0..entry.num_of_blocks, and the rest of the entry after it
BlockLoop ==
  /\ run.at = "blocks"
  /\ run.steps < MaxSteps
  /\ run' = IF run.left > 0
              THEN block_read(pass(run),
                     read_block_end([res |-> Ok, cur |-> run.p.cur, entry |-> run.entry],
                                    read(run.p.cur, 8)))
            ELSE entry_tail_read(pass(run),
                   read_field(read_field(
                     [res |-> Ok, cur |-> run.p.cur, entry |-> run.entry],
                     4, "u32", "compressed_block_size"),
                     1, "u8", "encrypted"))
  /\ UNCHANGED <<pak, env, last, first_ok, first_err, buff, conv, pair, cli>>

\* load_entry_paths is called on a dialect 10 archive whose paths are not
\* loaded
LoadEntryPaths ==
  /\ run.at = "idle"
  /\ run.p.self.varient = 10
  /\ run.p.self.is_entries_loaded
  /\ ~run.p.self.is_entry_paths_loaded
  /\ run' = load_entry_paths_begin(
              [run EXCEPT !.call = "load_entry_paths", !.id = 0, !.steps = 0,
                          !.p = Loading(run.p.self)],
              read(VecCursor_new_with_offset(run.p.self.index_data,
                                             run.p.self.index_offset), 8))
  /\ UNCHANGED <<pak, env, last, first_ok, first_err, buff, conv, pair, cli>>

\* for _ in 0..dir_count
DirLoop ==
  /\ run.at = "dirs"
  /\ run.steps < MaxSteps
  /\ run' = IF run.dirs > 0 THEN dir_len_read(pass(run), read(run.p.cur, 4))
            ELSE loaded(pass(run), set_entry_paths_loaded(run.p))
  /\ UNCHANGED <<pak, env, last, first_ok, first_err, buff, conv, pair, cli>>

\* for _ in 0..dir_files, and on to the next directory after it
FileLoop ==
  /\ run.at = "files"
  /\ run.steps < MaxSteps
  /\ run' = IF run.files > 0
              THEN file_read(pass(run), read_file_name_size(run.p, read(run.p.cur, 4),
                                                      run.dir_name, env))
            ELSE [pass(run) EXCEPT !.dirs = IF @ >= HUGE THEN HUGE ELSE @ - 1,
                                   !.at = "dirs"]
  /\ UNCHANGED <<pak, env, last, first_ok, first_err, buff, conv, pair, cli>>

\* extract_entry_to_file(entry_id, ..) is called on an archive whose entries
\* are loaded
Extract(entry_id) ==
  /\ run.at = "idle"
  /\ run.p.self.is_entries_loaded
  /\ run' = extract_begin([run EXCEPT !.call = "extract_entry_to_file",
                                      !.id = entry_id, !.steps = 0], entry_id)
  /\ UNCHANGED <<pak, env, last, first_ok, first_err, buff, conv, pair, cli>>

\* for block in &entry.blocks
ExtractBlockLoop ==
  /\ run.at = "xblocks"
  /\ run.steps < MaxSteps
  /\ run' = IF run.b <= Len(run.entry.blocks)
              THEN block_extracted(pass(run),
                     extract_block(run.p.self.file, run.entry, run.entry.blocks[run.b],
                                   run.x, env))
            ELSE returned(pass(run), Ok)
  /\ UNCHANGED <<pak, env, last, first_ok, first_err, buff, conv, pair, cli>>

\* while file_size > 0
RawLoop ==
  /\ run.at = "raw"
  /\ run.steps < MaxSteps
  /\ run' = IF run.file_size > 0
              THEN raw_chunk_written(pass(run),
                     extract_raw_chunk(run.entry, run.x,
                       read_file_at(run.p.self.file, min(run.file_size, CHUNK_SIZE),
                                    run.file_offset, env.target_os)))
            ELSE returned(pass(run), Ok)
  /\ UNCHANGED <<pak, env, last, first_ok, first_err, buff, conv, pair, cli>>

NextLoops ==
  \/ LoadEntries
  \/ EntryLoop
  \/ BlockLoop
  \/ LoadEntryPaths
  \/ DirLoop
  \/ FileLoop
  \/ \E entry_id \in Ids : Extract(entry_id)
  \/ ExtractBlockLoop
  \/ RawLoop

SpecLoops == InitLoops /\ [][NextLoops]_vars

\* a call that has started goes on running
\* a call returns what the loader or the extraction, taken as a whole,
\* returns on the archive as it was opened
LoopsAgree ==
  run.at \in {"idle", "dead"} =>
    /\ run.call = "load_entries" =>
         /\ run.res = load_entries(new(run.p.self.varient, run.p.self.file), env).res
         /\ run.p.self = load_entries(new(run.p.self.varient, run.p.self.file), env).self
    /\ run.call = "load_entry_paths" =>
         /\ run.res = load_entry_paths(new(10, run.p.self.file), env).res
         /\ run.p.self = load_entry_paths(new(10, run.p.self.file), env).self
    /\ run.call = "extract_entry_to_file" =>
         /\ run.res = extract_entry_to_file(new(run.p.self.varient, run.p.self.file),
                                            run.id, env).res
         /\ run.x.out = extract_entry_to_file(new(run.p.self.varient, run.p.self.file),
                                              run.id, env).out

Running == run.at \notin {"idle", "dead"}

\* the step is a pass of the loop body: the loop's condition held
Iterates ==
  \/ run.at = "entries" /\ run.entry_id < Len(run.p.self.entries)
  \/ run.at = "blocks" /\ run.left > 0
  \/ run.at = "dirs" /\ run.dirs > 0
  \/ run.at = "files" /\ run.files > 0

\* the most passes a running call can have made: one for every byte of the
\* index buffer and the last test of a condition, or, in the raw loop, one
\* for every chunk of the entry's size and the last test
PassesBound ==
  IF run.at = "raw" THEN (run.entry.file_size \div CHUNK_SIZE) + 2
  ELSE BufLen(run.p.self.index_data) + 1

\* C26: every stage loader and every extraction terminates: a running call
\* has made no more passes of its loops than the index buffer has bytes
\* (the raw loop: than the entry's size has chunks), so it returns or
\* panics. Each pass of the entry loop, the block loop, the directory loop
\* and the file-record loop either moves the index cursor forward by at
\* least one byte, never past the end of the buffer, or makes the call
\* fail, whatever counts the file states; each pass of the raw loop either
\* fails or takes between 1 and 65,536 bytes off the remaining size, and
\* the loop ends when that is 0.
C26_LoopsTerminate ==
  /\ [](Running => run.steps <= PassesBound /\ run.steps < MaxSteps)
  /\ [][ /\ Iterates =>
             \/ run'.at \in {"idle", "dead"} /\ run'.res # Ok
             \/ /\ run'.p.cur.offset > run.p.cur.offset
                /\ run'.p.cur.offset <= BufLen(run.p.cur.buffer)
         /\ (run.at = "raw" /\ run.file_size > 0) =>
             \/ run'.at \in {"idle", "dead"} /\ run'.res # Ok
             \/ /\ run'.at = "raw"
                /\ run.file_size - run'.file_size \in 1 .. CHUNK_SIZE
         /\ (run.at = "raw" /\ run.file_size = 0) =>
             run'.at = "idle" /\ run'.res = Ok
     ]_vars

\* the block loop of an entry whose num_of_blocks is far more than the
\* index buffer holds has ended in an error after reading the blocks that
\* are there
C26_Witness ==
  /\ run.at = "idle"
  /\ run.from = "blocks"
  /\ run.left > BufLen(run.p.cur.buffer)
  /\ IsReadPastEnd(run.res)
  /\ run.steps > 1


====
